---- MODULE Spec2Model ----
(***************************************************************************)
(* Model of the reactoverdrive analysis-to-catalog pipeline:               *)
(*   server/process_upload.py   the orchestrator (main)                    *)
(*   server/analyze_music.py    feature extraction and segment detection   *)
(*   server/analyze_lyrics.py   identification and lyric fetching          *)
(*   server/organize_files.py   file placement and the song catalog        *)
(*   server/api_server.py       upload, score submission                   *)
(* Times of the segment detector are counted in twentieths of a second, so *)
(* that the factors 0.15, 0.2 and 0.1 of generate_fallback_segments are    *)
(* exact on whole-second durations.                                        *)
(***************************************************************************)
EXTENDS Integers, Sequences, FiniteSets, TLC

\* ------------------------------------------------------------------ bounds
MaxStarts == 2        \* pipeline runs started in one behaviour
MaxSubmits == 2       \* score submissions accepted for processing
MaxDay == 2           \* calendar days the clock can show
MaxSeqOps == 3        \* operations started when they run one at a time
MaxDuration == 320    \* longest track, in seconds, given to the detector
MaxBoard == 11        \* records submitted to a leaderboard before the requests

\* process_upload.py: defaults of the seeded leaderboard
DEFAULT_INITIALS == <<"B", "T", "F">>
DEFAULT_SCORE == 100

\* inject_core_song.py: defaults of the leaderboard of a core song
CORE_DEFAULT_INITIALS == <<"R", "O", "D">>
CORE_DEFAULT_SCORE == 500

Runs == {1, 2}                \* worker processes running process_upload.py
Subs == {1, 2}                \* request threads inside submit_score
Files == {"f1", "f2"}         \* uploaded audio files (song keys are their stems)

StageOrder == <<"Analyze", "Segment", "Identify", "FetchLyrics", "Organize", "InitLeaderboard">>

VARIABLES
    pc,            \* run -> position of the orchestrator and of its scripts
    file,          \* run -> input file of the run
    stages,        \* run -> stage events of the run so far, in order
    analysisOk,    \* run -> return code of analyze_music.py was 0
    lyricsOk,      \* run -> return code of analyze_lyrics.py was 0
    localCatalog,  \* run -> the catalog list held by organize_files.py
    songInfo,      \* run -> the metadata organize_files.py loaded
    runsLeft,      \* pipeline runs that may still be started
    uploads,       \* song keys whose mp3 the server finds (data/uploads, core music)
    metadataFile,  \* file -> <stem>_info.json
    catalogFile,   \* data/processed/processed_songs.json
    scoresFile,    \* file -> <stem>_scores.json
    spc,           \* submission -> position inside submit_score
    skey,          \* submission -> song id
    snew,          \* submission -> new_score
    sdata,         \* submission -> scores_data["scores"] as loaded
    sresp,         \* submission -> response (status, rank, top scores)
    submitsLeft,   \* submissions that may still be made
    today,         \* the date datetime.now() reports
    logger,        \* run -> the DebugLogger of the run
    exitStatus,    \* run -> exit status of process_upload.py, -1 while it runs
    logFile,       \* file -> <stem>_debug.log
    fs,            \* the Feature Set given to detect_segments
    segPc,         \* position of the detect_segments call
    segOut,        \* what detect_segments returned
    idIn,          \* the file stem and the lookup outcome given to identify_song
    idPc,          \* position of the identify_song call
    idOut,         \* what identify_song returned
    genIn,         \* the file size and the random source given to the generator
    genPc,         \* position of the generate_fallback_analysis call
    genOut         \* what generate_fallback_analysis returned

vars == <<pc, file, stages, analysisOk, lyricsOk, localCatalog, songInfo, runsLeft, uploads,
          metadataFile, catalogFile, scoresFile, spc, skey, snew, sdata, sresp,
          submitsLeft, today, logger, exitStatus, logFile, fs, segPc, segOut,
          idIn, idPc, idOut, genIn, genPc, genOut>>

runVars == <<pc, file, stages, analysisOk, lyricsOk, localCatalog, songInfo, runsLeft,
             logger, exitStatus, logFile>>
subVars == <<spc, skey, snew, sdata, sresp, submitsLeft>>
segVars == <<fs, segPc, segOut>>
idVars == <<idIn, idPc, idOut>>
genVars == <<genIn, genPc, genOut>>

\* ------------------------------------------------------------- file contents
AbsentFile == [state |-> "absent", scores |-> <<>>]
ScoresContent(s) == [state |-> "ok", scores |-> s]
NoMetadata == [state |-> "absent", title |-> "", artist |-> "", filename |-> ""]
NoCatalog == [state |-> "absent", entries |-> <<>>]
CatalogContent(c) == [state |-> "ok", entries |-> c]

Event(kind, stage) == [ev |-> kind, stage |-> stage]
Ran(stage) == <<Event("start", stage), Event("end", stage)>>

\* ------------------------------------------- process_upload.py: DebugLogger
\* A record of the run log: its level and its message.
Line(level, message) == [level |-> level, message |-> message]

HEADER == Line("INFO", "=== DEBUG LOG ===")
STARTING == Line("INFO", "Starting full processing")
STEP1 == Line("INFO", "=== STEP 1: Music Analysis ===")
ANALYSIS_COMPLETE == Line("SUCCESS", "Music analysis complete")
ANALYSIS_FAILED == Line("ERROR", "Music analysis failed. Skipping lyrics and file organization.")
STEP2 == Line("INFO", "=== STEP 2: Lyrics Fetching ===")
LYRICS_COMPLETE == Line("SUCCESS", "Lyrics fetching complete")
LYRICS_FAILED == Line("WARNING", "Lyrics fetching failed, continuing with file organization.")
STEP3 == Line("INFO", "=== STEP 3: File Organization ===")
VALID_METADATA == Line("INFO", "Valid metadata found")
ORGANIZATION_COMPLETE == Line("SUCCESS", "File organization complete.")
METADATA_INCOMPLETE == Line("WARNING", "Metadata file exists but is incomplete. Skipping organization.")
METADATA_NOT_FOUND == Line("WARNING", "Skipping file organization (metadata file not found).")
STEP4 == Line("INFO", "=== STEP 4: High Score Initialization ===")
SCORES_EXIST == Line("INFO", "High score file already exists")
SCORES_CREATED == Line("SUCCESS", "Created high score file")
PROCESSING_COMPLETE == Line("SUCCESS", "Full processing complete!")
UNHANDLED == Line("ERROR", "Unhandled exception during processing")
END_LOG == Line("INFO", "=== END DEBUG LOG ===")

\* The logger of a process that is not running, and a log file never written.
\* messages are the records written through the handle, closes counts the
\* calls of close().
NoLogger == [messages |-> <<>>, open |-> FALSE, closes |-> 0]
NoLog == [owner |-> 0, lines |-> <<>>, mixed |-> FALSE]

\* __init__: open(log_file_path, "w") empties the file; the header follows
OpenLogger(msgs) == [messages |-> msgs, open |-> TRUE, closes |-> 0]
OpenedLog(r, msgs) == [owner |-> r, lines |-> msgs, mixed |-> FALSE]

\* log(): write and flush. The file keeps the records of the handle that
\* emptied it last (its owner); a record written through another handle
\* lands at that handle's own offset, among or past the owner's records,
\* which is kept as the mark mixed.
Logged(lg, msgs) == [lg EXCEPT !.messages = @ \o msgs]
Written(lf, r, msgs) ==
    IF lf.owner = r THEN [lf EXCEPT !.lines = @ \o msgs] ELSE [lf EXCEPT !.mixed = TRUE]

\* close(): the closing record is logged, then the file is closed
Closed(lg) == [messages |-> Append(lg.messages, END_LOG), open |-> FALSE, closes |-> lg.closes + 1]

\* close() on a closed logger: log() prints the closing record and the
\* write raises ValueError, nothing reaches the file
ClosedAgain(lg) == [lg EXCEPT !.closes = @ + 1]


\* ------------------------------------------------ analyze_lyrics.identify_song
\* What identify_song can return for a file: None on an AcoustID error
\* response, or a title and an artist, both non-empty (a match, or the
\* fallback to the file name) or with the empty artist a match can report.
IdentifyResults(f) ==
    { [state |-> "none", title |-> "", artist |-> "", filename |-> ""],
      [state |-> "ok", title |-> "Song", artist |-> "Band", filename |-> f],
      [state |-> "ok", title |-> "Song", artist |-> "", filename |-> f] }

\* --------------------------------------- organize_files.update_song_catalog
RECURSIVE RemoveFirst(_, _)
RemoveFirst(catalog, filename) ==
    IF catalog = <<>> THEN <<>>
    ELSE IF Head(catalog).filename = filename THEN Tail(catalog)
    ELSE <<Head(catalog)>> \o RemoveFirst(Tail(catalog), filename)

\* d.get(key, default)
Get(d, key, default) == IF key \in DOMAIN d THEN d[key] ELSE default

\* lines 56-67: the entry is built from the metadata organize_files.py was
\* given, <stem>_info.json, which analyze_lyrics.py writes with title,
\* artist and filename; the analysis file is not read
CatalogEntry(song_info) ==
    [title |-> song_info.title, artist |-> song_info.artist,
     filename |-> song_info.filename,
     duration |-> Get(song_info, "duration", 0), tempo |-> Get(song_info, "tempo", 0)]

\* UpdatedCatalog without the removal of the old entry
UpdatedCatalog_AppendOnly(catalog, song_info) ==
    Append(catalog, CatalogEntry(song_info))

UpdatedCatalog(catalog, song_info) ==
    Append(RemoveFirst(catalog, song_info.filename), CatalogEntry(song_info))

\* json.load of the catalog; a corrupt file leaves catalog = []
LoadCatalog(cf) == IF cf.state = "ok" THEN cf.entries ELSE <<>>

\* ensure_directories: an absent catalog file is created holding []
EnsureCatalog(cf) == IF cf.state = "absent" THEN CatalogContent(<<>>) ELSE cf

\* --------------------------------------------------------------- the clock
Tick ==
    /\ today < MaxDay
    /\ today' = today + 1
    /\ UNCHANGED <<genVars, runVars, subVars, segVars, idVars, uploads, metadataFile, catalogFile, scoresFile>>

\* ------------------------------------------------- process_upload.py: main
\* StartRun with the lyrics script as the first step of main
StartRun_LyricsFirst(r, f) ==
    /\ pc[r] = "idle"
    /\ \A q \in Runs : q < r => pc[q] # "idle"
    /\ runsLeft > 0
    /\ runsLeft' = runsLeft - 1
    /\ uploads' = uploads \cup {f}
    /\ pc' = [pc EXCEPT ![r] = "lyrics_script"]
    /\ file' = [file EXCEPT ![r] = f]
    /\ stages' = [stages EXCEPT ![r] = <<>>]
    /\ analysisOk' = [analysisOk EXCEPT ![r] = FALSE]
    /\ lyricsOk' = [lyricsOk EXCEPT ![r] = FALSE]
    /\ localCatalog' = [localCatalog EXCEPT ![r] = <<>>]
    /\ songInfo' = [songInfo EXCEPT ![r] = NoMetadata]
    /\ logger' = [logger EXCEPT ![r] = OpenLogger(<<HEADER, STARTING, STEP1>>)]
    /\ logFile' = [logFile EXCEPT ![f] = OpenedLog(r, <<HEADER, STARTING, STEP1>>)]
    /\ exitStatus' = [exitStatus EXCEPT ![r] = -1]
    /\ UNCHANGED <<subVars, metadataFile, catalogFile, scoresFile, today, segVars, idVars, genVars>>

\* api_server.upload_song / process_song: the file is in data/uploads and
\* process_upload.py is started on it.
StartRun(r, f) ==
    /\ pc[r] = "idle"
    /\ \A q \in Runs : q < r => pc[q] # "idle"
    /\ runsLeft > 0
    /\ runsLeft' = runsLeft - 1
    /\ uploads' = uploads \cup {f}
    /\ pc' = [pc EXCEPT ![r] = "analyze"]
    /\ file' = [file EXCEPT ![r] = f]
    /\ stages' = [stages EXCEPT ![r] = <<>>]
    /\ analysisOk' = [analysisOk EXCEPT ![r] = FALSE]
    /\ lyricsOk' = [lyricsOk EXCEPT ![r] = FALSE]
    /\ localCatalog' = [localCatalog EXCEPT ![r] = <<>>]
    /\ songInfo' = [songInfo EXCEPT ![r] = NoMetadata]
    /\ logger' = [logger EXCEPT ![r] = OpenLogger(<<HEADER, STARTING, STEP1>>)]
    /\ logFile' = [logFile EXCEPT ![f] = OpenedLog(r, <<HEADER, STARTING, STEP1>>)]
    /\ exitStatus' = [exitStatus EXCEPT ![r] = -1]
    /\ UNCHANGED <<subVars, metadataFile, catalogFile, scoresFile, today, segVars, idVars, genVars>>

\* analyze_music.analyze_audio by the step of it that fails, if any: without
\* the libraries (DEPENDENCIES_INSTALLED is False), and when librosa.load or
\* get_duration raises inside the try of lines 92-100, the result is that of
\* generate_fallback_analysis; beat_track, onset_detect, feature.rms and
\* extract_notes are called outside any try, so what they raise leaves
\* analyze_audio and analyze_and_detect_segments
AnalysisSteps ==
    {"none", "dependencies", "load", "beat_track", "onset_detect", "rms", "extract_notes"}

analyze_audio(failed) ==
    CASE failed = "none" -> "measured"
      [] failed \in {"dependencies", "load"} -> "fallback"
      [] OTHER -> "raised"

\* the "metadata" block of the analysis of the file f, which the STEP 1
\* script saves in <stem>_analysis.json: the duration in seconds and the
\* tempo in beats per minute of the audio
AnalysisMetadata(f) ==
    IF f = "f1" THEN [duration |-> 180, tempo |-> 120] ELSE [duration |-> 240, tempo |-> 90]

\* analyze_music.analyze_audio inside the STEP 1 script: it returns a
\* measured or a fallback analysis, or an uncaught exception ends the script.
Analyze(r) ==
    /\ pc[r] = "analyze"
    /\ \E failed \in AnalysisSteps :
          IF analyze_audio(failed) = "raised"
          THEN /\ pc' = [pc EXCEPT ![r] = "analysis_returned"]
               /\ stages' = [stages EXCEPT ![r] = @ \o <<Event("start", "Analyze"), Event("fail", "Analyze")>>]
          ELSE /\ pc' = [pc EXCEPT ![r] = "segment"]
               /\ stages' = [stages EXCEPT ![r] = @ \o Ran("Analyze")]
    /\ UNCHANGED <<logger, exitStatus, logFile, file, analysisOk, lyricsOk, localCatalog, songInfo, runsLeft, subVars,
                   uploads, metadataFile, catalogFile, scoresFile, today, segVars, idVars, genVars>>

\* analyze_music.detect_segments inside the STEP 1 script, then the save of
\* the analysis file; an exception ends the script with a non-zero code.
Segment(r) ==
    /\ pc[r] = "segment"
    /\ \E ok \in BOOLEAN :
          /\ analysisOk' = [analysisOk EXCEPT ![r] = ok]
          /\ stages' = [stages EXCEPT ![r] =
                 @ \o <<Event("start", "Segment"), Event(IF ok THEN "end" ELSE "fail", "Segment")>>]
    /\ pc' = [pc EXCEPT ![r] = "analysis_returned"]
    /\ UNCHANGED <<logger, exitStatus, logFile, file, lyricsOk, localCatalog, songInfo, runsLeft, subVars,
                   uploads, metadataFile, catalogFile, scoresFile, today, segVars, idVars, genVars>>

\* AnalysisFailedExit without the exit(1): the run goes on to STEP 2
AnalysisFailedExit_Continues(r) ==
    /\ pc[r] = "analysis_returned"
    /\ ~analysisOk[r]
    /\ pc' = [pc EXCEPT ![r] = "lyrics_script"]
    /\ logger' = [logger EXCEPT ![r] = Logged(@, <<ANALYSIS_FAILED, STEP2>>)]
    /\ logFile' = [logFile EXCEPT ![file[r]] = Written(@, r, <<ANALYSIS_FAILED, STEP2>>)]
    /\ UNCHANGED <<file, stages, analysisOk, lyricsOk, localCatalog, songInfo, runsLeft, subVars,
                   exitStatus, uploads, metadataFile, catalogFile, scoresFile, today, segVars, idVars, genVars>>

\* AnalysisFailedExit that ends the process with status 0
AnalysisFailedExit_ExitsZero(r) ==
    /\ pc[r] = "analysis_returned"
    /\ ~analysisOk[r]
    /\ pc' = [pc EXCEPT ![r] = "failed"]
    /\ logger' = [logger EXCEPT ![r] = ClosedAgain(Closed(Logged(@, <<ANALYSIS_FAILED>>)))]
    /\ logFile' = [logFile EXCEPT ![file[r]] = Written(@, r, <<ANALYSIS_FAILED, END_LOG>>)]
    /\ exitStatus' = [exitStatus EXCEPT ![r] = 0]
    /\ UNCHANGED <<file, stages, analysisOk, lyricsOk, localCatalog, songInfo, runsLeft, subVars,
                   uploads, metadataFile, catalogFile, scoresFile, today, segVars, idVars, genVars>>

\* main, lines 188-194: the branch on analysis_success. The failure is
\* logged and the logger closed; exit(1) raises SystemExit, the finally
\* clause calls close() again, whose write to the closed file raises
\* ValueError, and the process ends with status 1.
AnalysisFailedExit(r) ==
    /\ pc[r] = "analysis_returned"
    /\ ~analysisOk[r]
    /\ pc' = [pc EXCEPT ![r] = "failed"]
    /\ logger' = [logger EXCEPT ![r] = ClosedAgain(Closed(Logged(@, <<ANALYSIS_FAILED>>)))]
    /\ logFile' = [logFile EXCEPT ![file[r]] = Written(@, r, <<ANALYSIS_FAILED, END_LOG>>)]
    /\ exitStatus' = [exitStatus EXCEPT ![r] = 1]
    /\ UNCHANGED <<file, stages, analysisOk, lyricsOk, localCatalog, songInfo, runsLeft, subVars,
                   uploads, metadataFile, catalogFile, scoresFile, today, segVars, idVars, genVars>>

AnalysisSucceeded(r) ==
    /\ pc[r] = "analysis_returned"
    /\ analysisOk[r]
    /\ pc' = [pc EXCEPT ![r] = "lyrics_script"]
    /\ logger' = [logger EXCEPT ![r] = Logged(@, <<ANALYSIS_COMPLETE, STEP2>>)]
    /\ logFile' = [logFile EXCEPT ![file[r]] = Written(@, r, <<ANALYSIS_COMPLETE, STEP2>>)]
    /\ UNCHANGED <<file, stages, analysisOk, lyricsOk, localCatalog, songInfo, runsLeft, subVars,
                   exitStatus, uploads, metadataFile, catalogFile, scoresFile, today, segVars, idVars, genVars>>

AnalysisResult(r) == AnalysisFailedExit(r) \/ AnalysisSucceeded(r)

\* STEP 2 script analyze_lyrics.py up to the return of identify_song; the
\* script can end with an error before it identifies anything (a failed
\* import of requests).
Identify(r) ==
    /\ pc[r] = "lyrics_script"
    /\ \/ /\ pc' = [pc EXCEPT ![r] = "organize"]
          /\ lyricsOk' = [lyricsOk EXCEPT ![r] = FALSE]
          /\ UNCHANGED <<stages, metadataFile>>
       \/ \E song_info \in IdentifyResults(file[r]) :
             /\ stages' = [stages EXCEPT ![r] = @ \o Ran("Identify")]
             /\ IF song_info.state = "none"
                THEN /\ pc' = [pc EXCEPT ![r] = "organize"]
                     /\ lyricsOk' = [lyricsOk EXCEPT ![r] = TRUE]
                     /\ UNCHANGED metadataFile
                ELSE /\ pc' = [pc EXCEPT ![r] = "fetchlyrics"]
                     /\ metadataFile' = [metadataFile EXCEPT ![file[r]] = song_info]
                     /\ UNCHANGED lyricsOk
    /\ UNCHANGED <<logger, exitStatus, logFile, file, analysisOk, localCatalog, songInfo, runsLeft, subVars,
                   uploads, catalogFile, scoresFile, today, segVars, idVars, genVars>>

\* analyze_lyrics.analyze_audio, lines 223-235: without the dependency the
\* fetch is skipped; fetch_synced_lyrics never raises, and returns the lyrics
\* or None; save_file of the lyric file can raise, which ends the script with
\* a non-zero code.
FetchLyrics(r) ==
    /\ pc[r] = "fetchlyrics"
    /\ \E outcome \in {"skipped", "fetched", "save_failed"} :
          /\ stages' = [stages EXCEPT ![r] =
                 CASE outcome = "skipped" -> @
                   [] outcome = "fetched" -> @ \o Ran("FetchLyrics")
                   [] OTHER -> @ \o <<Event("start", "FetchLyrics"), Event("fail", "FetchLyrics")>>]
          /\ lyricsOk' = [lyricsOk EXCEPT ![r] = outcome # "save_failed"]
    /\ pc' = [pc EXCEPT ![r] = "organize"]
    /\ UNCHANGED <<logger, exitStatus, logFile, file, analysisOk, localCatalog, songInfo, runsLeft, subVars,
                   uploads, metadataFile, catalogFile, scoresFile, today, segVars, idVars, genVars>>

\* MetadataValid without the test of the artist
MetadataValid_TitleOnly(m) == m.state = "ok" /\ m.title # ""

\* main, lines 209-231: the guard of STEP 3
MetadataValid(m) == m.state = "ok" /\ m.title # "" /\ m.artist # ""

\* main, lines 198-231: what is logged from the return of the STEP 2 script
\* to the start of organize_files.py or to the skip of STEP 3
\* LyricsLine without the branch on the return code of the script
LyricsLine_AlwaysComplete(r) == LYRICS_COMPLETE

LyricsLine(r) == IF lyricsOk[r] THEN LYRICS_COMPLETE ELSE LYRICS_FAILED
SkipLine(m) == IF m.state = "absent" THEN METADATA_NOT_FOUND ELSE METADATA_INCOMPLETE

\* STEP 3 is skipped, or organize_files.py starts and fails while copying,
\* or it loads the metadata, copies the files and reaches
\* update_song_catalog.
OrganizeLoad(r) ==
    /\ pc[r] = "organize"
    /\ IF ~MetadataValid(metadataFile[file[r]])
       THEN /\ pc' = [pc EXCEPT ![r] = "initlb"]
            /\ logger' = [logger EXCEPT ![r] =
                   Logged(@, <<LyricsLine(r), STEP3, SkipLine(metadataFile[file[r]])>>)]
            /\ logFile' = [logFile EXCEPT ![file[r]] =
                   Written(@, r, <<LyricsLine(r), STEP3, SkipLine(metadataFile[file[r]])>>)]
            /\ UNCHANGED <<stages, localCatalog, songInfo, catalogFile>>
       ELSE \/ /\ pc' = [pc EXCEPT ![r] = "initlb"]
               /\ stages' = [stages EXCEPT ![r] =
                      @ \o <<Event("start", "Organize"), Event("fail", "Organize")>>]
               /\ logger' = [logger EXCEPT ![r] =
                      Logged(@, <<LyricsLine(r), STEP3, VALID_METADATA, ORGANIZATION_COMPLETE>>)]
               /\ logFile' = [logFile EXCEPT ![file[r]] =
                      Written(@, r, <<LyricsLine(r), STEP3, VALID_METADATA, ORGANIZATION_COMPLETE>>)]
               /\ UNCHANGED <<localCatalog, songInfo, catalogFile>>
            \/ /\ pc' = [pc EXCEPT ![r] = "organize_upsert"]
               /\ stages' = [stages EXCEPT ![r] = Append(@, Event("start", "Organize"))]
               /\ logger' = [logger EXCEPT ![r] = Logged(@, <<LyricsLine(r), STEP3, VALID_METADATA>>)]
               /\ logFile' = [logFile EXCEPT ![file[r]] =
                      Written(@, r, <<LyricsLine(r), STEP3, VALID_METADATA>>)]
               /\ catalogFile' = EnsureCatalog(catalogFile)
               /\ songInfo' = [songInfo EXCEPT ![r] = metadataFile[file[r]]]
               /\ UNCHANGED localCatalog
    /\ UNCHANGED <<file, analysisOk, lyricsOk, runsLeft, subVars, exitStatus,
                   uploads, metadataFile, scoresFile, today, segVars, idVars, genVars>>

\* update_song_catalog, lines 30-43: the catalog file is read as UTF-8 text
\* and parsed. json.JSONDecodeError is caught and leaves catalog = []; the
\* UnicodeDecodeError of a file that is not UTF-8 text is not caught: it
\* leaves update_song_catalog and organize_files, the script exits with
\* status 1 and main logs line 221
UpsertLoad(r) ==
    /\ pc[r] = "organize_upsert"
    /\ catalogFile' = EnsureCatalog(catalogFile)
    /\ IF catalogFile.state = "undecodable"
       THEN /\ pc' = [pc EXCEPT ![r] = "initlb"]
            /\ stages' = [stages EXCEPT ![r] = Append(@, Event("fail", "Organize"))]
            /\ logger' = [logger EXCEPT ![r] = Logged(@, <<ORGANIZATION_COMPLETE>>)]
            /\ logFile' = [logFile EXCEPT ![file[r]] = Written(@, r, <<ORGANIZATION_COMPLETE>>)]
            /\ UNCHANGED localCatalog
       ELSE /\ pc' = [pc EXCEPT ![r] = "organize_save"]
            /\ localCatalog' = [localCatalog EXCEPT ![r] = LoadCatalog(catalogFile)]
            /\ UNCHANGED <<stages, logger, logFile>>
    /\ UNCHANGED <<file, analysisOk, lyricsOk, songInfo, runsLeft, subVars, exitStatus,
                   uploads, metadataFile, scoresFile, today, segVars, idVars, genVars>>

\* update_song_catalog, lines 45-71: replace or append, then save; the
\* script returns and main logs line 221
OrganizeSave(r) ==
    /\ pc[r] = "organize_save"
    /\ catalogFile' = CatalogContent(UpdatedCatalog(localCatalog[r], songInfo[r]))
    /\ stages' = [stages EXCEPT ![r] = Append(@, Event("end", "Organize"))]
    /\ pc' = [pc EXCEPT ![r] = "initlb"]
    /\ logger' = [logger EXCEPT ![r] = Logged(@, <<ORGANIZATION_COMPLETE>>)]
    /\ logFile' = [logFile EXCEPT ![file[r]] = Written(@, r, <<ORGANIZATION_COMPLETE>>)]
    /\ UNCHANGED <<file, analysisOk, lyricsOk, localCatalog, songInfo, runsLeft, subVars,
                   exitStatus, uploads, metadataFile, scoresFile, today, segVars, idVars, genVars>>

DefaultScore(date) == [initials |-> DEFAULT_INITIALS, score |-> DEFAULT_SCORE, date |-> date]

\* InitLeaderboardCheck without the exists() test: the seed is always written
InitLeaderboardCheck_Always(r) ==
    /\ pc[r] = "initlb"
    /\ pc' = [pc EXCEPT ![r] = "initlb_write"]
    /\ stages' = [stages EXCEPT ![r] = Append(@, Event("start", "InitLeaderboard"))]
    /\ logger' = [logger EXCEPT ![r] = Logged(@, <<STEP4>>)]
    /\ logFile' = [logFile EXCEPT ![file[r]] = Written(@, r, <<STEP4>>)]
    /\ UNCHANGED <<file, analysisOk, lyricsOk, localCatalog, songInfo, runsLeft, subVars,
                   exitStatus, uploads, metadataFile, catalogFile, scoresFile, today, segVars, idVars, genVars>>

\* main, lines 251-255 and 287-293: high_score_file.exists(); with the file
\* in place the run is complete, the logger is closed and main returns
InitLeaderboardCheck(r) ==
    /\ pc[r] = "initlb"
    /\ IF scoresFile[file[r]].state # "absent"
       THEN /\ pc' = [pc EXCEPT ![r] = "done"]
            /\ stages' = [stages EXCEPT ![r] = @ \o Ran("InitLeaderboard")]
            /\ logger' = [logger EXCEPT ![r] =
                   Closed(Logged(@, <<STEP4, SCORES_EXIST, PROCESSING_COMPLETE>>))]
            /\ logFile' = [logFile EXCEPT ![file[r]] =
                   Written(@, r, <<STEP4, SCORES_EXIST, PROCESSING_COMPLETE, END_LOG>>)]
            /\ exitStatus' = [exitStatus EXCEPT ![r] = 0]
       ELSE /\ pc' = [pc EXCEPT ![r] = "initlb_write"]
            /\ stages' = [stages EXCEPT ![r] = Append(@, Event("start", "InitLeaderboard"))]
            /\ logger' = [logger EXCEPT ![r] = Logged(@, <<STEP4>>)]
            /\ logFile' = [logFile EXCEPT ![file[r]] = Written(@, r, <<STEP4>>)]
            /\ UNCHANGED exitStatus
    /\ UNCHANGED <<file, analysisOk, lyricsOk, localCatalog, songInfo, runsLeft, subVars,
                   uploads, metadataFile, catalogFile, scoresFile, today, segVars, idVars, genVars>>

\* main, lines 257-293: the seeded file is written, the run is complete, the
\* logger is closed and main returns
InitLeaderboardWrite(r) ==
    /\ pc[r] = "initlb_write"
    /\ scoresFile' = [scoresFile EXCEPT ![file[r]] = ScoresContent(<<DefaultScore(today)>>)]
    /\ stages' = [stages EXCEPT ![r] = Append(@, Event("end", "InitLeaderboard"))]
    /\ pc' = [pc EXCEPT ![r] = "done"]
    /\ logger' = [logger EXCEPT ![r] = Closed(Logged(@, <<SCORES_CREATED, PROCESSING_COMPLETE>>))]
    /\ logFile' = [logFile EXCEPT ![file[r]] =
           Written(@, r, <<SCORES_CREATED, PROCESSING_COMPLETE, END_LOG>>)]
    /\ exitStatus' = [exitStatus EXCEPT ![r] = 0]
    /\ UNCHANGED <<file, analysisOk, lyricsOk, localCatalog, songInfo, runsLeft, subVars,
                   uploads, metadataFile, catalogFile, today, segVars, idVars, genVars>>

\* main, lines 288-293: run_script raises while it starts a script
\* (subprocess.run cannot start the interpreter); the exception is logged,
\* the logger is closed and main returns
UnhandledException(r) ==
    /\ pc[r] \in {"analyze", "lyrics_script"}
    /\ pc' = [pc EXCEPT ![r] = "done"]
    /\ logger' = [logger EXCEPT ![r] = Closed(Logged(@, <<UNHANDLED>>))]
    /\ logFile' = [logFile EXCEPT ![file[r]] = Written(@, r, <<UNHANDLED, END_LOG>>)]
    /\ exitStatus' = [exitStatus EXCEPT ![r] = 0]
    /\ UNCHANGED <<file, stages, analysisOk, lyricsOk, localCatalog, songInfo, runsLeft, subVars,
                   uploads, metadataFile, catalogFile, scoresFile, today, segVars, idVars, genVars>>

\* main, lines 194 and 293: the process ends, and its memory and its file
\* handle with it
ExitRun(r) ==
    /\ pc[r] \in {"done", "failed"}
    /\ pc' = [pc EXCEPT ![r] = "idle"]
    /\ file' = [file EXCEPT ![r] = "f1"]
    /\ stages' = [stages EXCEPT ![r] = <<>>]
    /\ analysisOk' = [analysisOk EXCEPT ![r] = FALSE]
    /\ lyricsOk' = [lyricsOk EXCEPT ![r] = FALSE]
    /\ localCatalog' = [localCatalog EXCEPT ![r] = <<>>]
    /\ songInfo' = [songInfo EXCEPT ![r] = NoMetadata]
    /\ logger' = [logger EXCEPT ![r] = NoLogger]
    /\ exitStatus' = [exitStatus EXCEPT ![r] = -1]
    /\ logFile' = [f \in Files |->
           IF logFile[f].owner = r THEN [logFile[f] EXCEPT !.owner = 0] ELSE logFile[f]]
    /\ UNCHANGED <<runsLeft, subVars, uploads, metadataFile, catalogFile, scoresFile, today, segVars, idVars, genVars>>

\* the steps of a started process
RunProgress(r) ==
    \/ UnhandledException(r)
    \/ Analyze(r)
    \/ Segment(r)
    \/ AnalysisResult(r)
    \/ Identify(r)
    \/ FetchLyrics(r)
    \/ OrganizeLoad(r)
    \/ UpsertLoad(r)
    \/ OrganizeSave(r)
    \/ InitLeaderboardCheck(r)
    \/ InitLeaderboardWrite(r)
    \/ ExitRun(r)

RunStep(r) ==
    \/ \E f \in Files : StartRun(r, f)
    \/ UnhandledException(r)
    \/ Analyze(r)
    \/ Segment(r)
    \/ AnalysisResult(r)
    \/ Identify(r)
    \/ FetchLyrics(r)
    \/ OrganizeLoad(r)
    \/ UpsertLoad(r)
    \/ OrganizeSave(r)
    \/ InitLeaderboardCheck(r)
    \/ InitLeaderboardWrite(r)
    \/ ExitRun(r)


\* -------------------------------------------------- api_server.submit_score
TopN == 10

Letters == {"a", "b", "x", "y", "z", "w", "A", "B", "X", "Y", "Z", "W", "T", "F"}
Upper(c) == CASE c = "a" -> "A" [] c = "b" -> "B" [] c = "x" -> "X"
              [] c = "y" -> "Y" [] c = "z" -> "Z" [] c = "w" -> "W" [] OTHER -> c

Min(a, b) == IF a < b THEN a ELSE b
Max(a, b) == IF a > b THEN a ELSE b

\* data["initials"][:3].upper()
Initials(raw) == [i \in 1..Min(3, Len(raw)) |-> Upper(raw[i])]

\* int(score): a number is taken as it is, any other text raises ValueError
IntOf(raw) == [ok |-> raw.kind = "int", val |-> raw.val]

InitialsInputs == { <<"a", "b">>, <<"x", "y", "z", "w">> }
ScoreInputs == { [kind |-> "int", val |-> 50], [kind |-> "int", val |-> 300],
                 [kind |-> "text", val |-> 0] }

\* sorted(scores, key=score, reverse=True): descending, and records of equal
\* score keep their order
RECURSIVE InsertDesc(_, _)
InsertDesc(sorted, x) ==
    IF sorted = <<>> THEN <<x>>
    ELSE IF Head(sorted).score >= x.score
         THEN <<Head(sorted)>> \o InsertDesc(Tail(sorted), x)
         ELSE <<x>> \o sorted

RECURSIVE SortDesc(_)
SortDesc(scores) ==
    IF scores = <<>> THEN <<>>
    ELSE InsertDesc(SortDesc(SubSeq(scores, 1, Len(scores) - 1)), scores[Len(scores)])

Top(scores) == SubSeq(scores, 1, Min(TopN, Len(scores)))

\* next((i+1 for i, s in enumerate(scores) if s == new_score), -1)
RankOf(scores, new_score) ==
    IF \E i \in 1..Len(scores) : scores[i] = new_score
    THEN CHOOSE i \in 1..Len(scores) :
            /\ scores[i] = new_score
            /\ \A j \in 1..(i - 1) : scores[j] # new_score
    ELSE -1

\* the file the submission writes: the song must have its mp3 in data/uploads
SongFound(song_id) == song_id \in uploads

\* json.load of the scores file; an absent file, and a file for which
\* json.load raises JSONDecodeError (state "corrupt": text that does not
\* parse) or UnicodeDecodeError (state "undecodable": not UTF-8 text), gives
\* no scores
LoadScores(sf) == IF sf.state = "ok" THEN sf.scores ELSE <<>>

NoResponse == [status |-> 0, rank |-> 0, scores |-> <<>>]
NoScore == [initials |-> <<>>, score |-> 0, date |-> 0]

\* SubmitLoad without the except clause of lines 333-334: an unreadable
\* scores file ends the request with an error response
SubmitLoad_UnreadableFails(s, song_id, raw_initials, raw_score) ==
    /\ spc[s] = "idle"
    /\ \A q \in Subs : q < s => spc[q] # "idle"
    /\ submitsLeft > 0
    /\ submitsLeft' = submitsLeft - 1
    /\ skey' = [skey EXCEPT ![s] = song_id]
    /\ IF ~IntOf(raw_score).ok
       THEN /\ spc' = [spc EXCEPT ![s] = "rejected"]
            /\ sresp' = [sresp EXCEPT ![s] = [status |-> 400, rank |-> 0, scores |-> <<>>]]
            /\ snew' = [snew EXCEPT ![s] = NoScore]
            /\ sdata' = [sdata EXCEPT ![s] = <<>>]
       ELSE IF ~SongFound(song_id)
       THEN /\ spc' = [spc EXCEPT ![s] = "rejected"]
            /\ sresp' = [sresp EXCEPT ![s] = [status |-> 404, rank |-> 0, scores |-> <<>>]]
            /\ snew' = [snew EXCEPT ![s] = NoScore]
            /\ sdata' = [sdata EXCEPT ![s] = <<>>]
       ELSE IF scoresFile[song_id].state \in {"corrupt", "undecodable"}
       THEN /\ spc' = [spc EXCEPT ![s] = "rejected"]
            /\ sresp' = [sresp EXCEPT ![s] = [status |-> 500, rank |-> 0, scores |-> <<>>]]
            /\ snew' = [snew EXCEPT ![s] = NoScore]
            /\ sdata' = [sdata EXCEPT ![s] = <<>>]
       ELSE /\ spc' = [spc EXCEPT ![s] = "loaded"]
            /\ sresp' = [sresp EXCEPT ![s] = NoResponse]
            /\ snew' = [snew EXCEPT ![s] = [initials |-> Initials(raw_initials),
                                            score |-> IntOf(raw_score).val,
                                            date |-> today]]
            /\ sdata' = [sdata EXCEPT ![s] = LoadScores(scoresFile[song_id])]
    /\ UNCHANGED <<runVars, uploads, metadataFile, catalogFile, scoresFile, today, segVars, idVars, genVars>>

\* submit_score, lines 278-346: validation, lookup of the song, load of the
\* scores file
SubmitLoad(s, song_id, raw_initials, raw_score) ==
    /\ spc[s] = "idle"
    /\ \A q \in Subs : q < s => spc[q] # "idle"
    /\ submitsLeft > 0
    /\ submitsLeft' = submitsLeft - 1
    /\ skey' = [skey EXCEPT ![s] = song_id]
    /\ IF ~IntOf(raw_score).ok
       THEN /\ spc' = [spc EXCEPT ![s] = "rejected"]
            /\ sresp' = [sresp EXCEPT ![s] = [status |-> 400, rank |-> 0, scores |-> <<>>]]
            /\ snew' = [snew EXCEPT ![s] = NoScore]
            /\ sdata' = [sdata EXCEPT ![s] = <<>>]
       ELSE IF ~SongFound(song_id)
       THEN /\ spc' = [spc EXCEPT ![s] = "rejected"]
            /\ sresp' = [sresp EXCEPT ![s] = [status |-> 404, rank |-> 0, scores |-> <<>>]]
            /\ snew' = [snew EXCEPT ![s] = NoScore]
            /\ sdata' = [sdata EXCEPT ![s] = <<>>]
       ELSE /\ spc' = [spc EXCEPT ![s] = "loaded"]
            /\ sresp' = [sresp EXCEPT ![s] = NoResponse]
            /\ snew' = [snew EXCEPT ![s] = [initials |-> Initials(raw_initials),
                                            score |-> IntOf(raw_score).val,
                                            date |-> today]]
            /\ sdata' = [sdata EXCEPT ![s] = LoadScores(scoresFile[song_id])]
    /\ UNCHANGED <<runVars, uploads, metadataFile, catalogFile, scoresFile, today, segVars, idVars, genVars>>

\* SubmitSave that persists the top of the sorted list only
SubmitSave_TopOnly(s) ==
    /\ spc[s] = "loaded"
    /\ LET sorted == SortDesc(Append(sdata[s], snew[s])) IN
          /\ scoresFile' = [scoresFile EXCEPT ![skey[s]] = ScoresContent(Top(sorted))]
          /\ sdata' = [sdata EXCEPT ![s] = <<>>]
          /\ sresp' = [sresp EXCEPT ![s] = [status |-> 200,
                                            rank |-> RankOf(sorted, snew[s]),
                                            scores |-> Top(sorted)]]
    /\ spc' = [spc EXCEPT ![s] = "returned"]
    /\ UNCHANGED <<runVars, skey, snew, submitsLeft, uploads, metadataFile, catalogFile, today, segVars, idVars, genVars>>

\* submit_score, lines 346-364: append, sort, save, respond
SubmitSave(s) ==
    /\ spc[s] = "loaded"
    /\ LET sorted == SortDesc(Append(sdata[s], snew[s])) IN
          /\ scoresFile' = [scoresFile EXCEPT ![skey[s]] = ScoresContent(sorted)]
          /\ sdata' = [sdata EXCEPT ![s] = <<>>]
          /\ sresp' = [sresp EXCEPT ![s] = [status |-> 200,
                                            rank |-> RankOf(sorted, snew[s]),
                                            scores |-> Top(sorted)]]
    /\ spc' = [spc EXCEPT ![s] = "returned"]
    /\ UNCHANGED <<runVars, skey, snew, submitsLeft, uploads, metadataFile, catalogFile, today, segVars, idVars, genVars>>

\* the response has been sent and the request thread is done
SubmitDone(s) ==
    /\ spc[s] \in {"returned", "rejected", "read"}
    /\ spc' = [spc EXCEPT ![s] = "idle"]
    /\ skey' = [skey EXCEPT ![s] = "f1"]
    /\ snew' = [snew EXCEPT ![s] = NoScore]
    /\ sdata' = [sdata EXCEPT ![s] = <<>>]
    /\ sresp' = [sresp EXCEPT ![s] = NoResponse]
    /\ UNCHANGED <<runVars, submitsLeft, uploads, metadataFile, catalogFile, scoresFile, today, segVars, idVars, genVars>>

SubStep(s) ==
    \/ \E song_id \in Files, raw_initials \in InitialsInputs, raw_score \in ScoreInputs :
          SubmitLoad(s, song_id, raw_initials, raw_score)
    \/ SubmitSave(s)
    \/ SubmitDone(s)

\* get_high_scores without the sort of line 269
GetHighScores_Unsorted(s, song_id) ==
    /\ spc[s] = "idle"
    /\ \A q \in Subs : q < s => spc[q] # "idle"
    /\ spc' = [spc EXCEPT ![s] = "read"]
    /\ skey' = [skey EXCEPT ![s] = song_id]
    /\ sresp' = [sresp EXCEPT ![s] = [status |-> 200, rank |-> 0,
                                      scores |-> Top(LoadScores(scoresFile[song_id]))]]
    /\ UNCHANGED <<runVars, snew, sdata, submitsLeft, uploads, metadataFile, catalogFile,
                   scoresFile, today, segVars, idVars, genVars>>

\* api_server.get_high_scores: the scores file of the song is read where it
\* exists (no audio file is asked for); an absent or unreadable file gives
\* no scores; the list is sorted and its first 10 records are returned
GetHighScores(s, song_id) ==
    /\ spc[s] = "idle"
    /\ \A q \in Subs : q < s => spc[q] # "idle"
    /\ spc' = [spc EXCEPT ![s] = "read"]
    /\ skey' = [skey EXCEPT ![s] = song_id]
    /\ sresp' = [sresp EXCEPT ![s] = [status |-> 200, rank |-> 0,
                                      scores |-> Top(SortDesc(LoadScores(scoresFile[song_id])))]]
    /\ UNCHANGED <<runVars, snew, sdata, submitsLeft, uploads, metadataFile, catalogFile,
                   scoresFile, today, segVars, idVars, genVars>>

\* inject_core_song.create_high_scores_file
CoreDefaultScore(date) ==
    [initials |-> CORE_DEFAULT_INITIALS, score |-> CORE_DEFAULT_SCORE, date |-> date]

\* inject_core_song.inject_song for the song f: <title>.mp3 is copied into
\* the song's directory under the core music directory, where submit_score
\* finds it, and <sanitize_filename(title)>_scores.json is opened with 'w'
\* and written with the default record. plain says that sanitize_filename
\* leaves the title as it is (no space, no special character): the file
\* written is then <title>_scores.json, the one the leaderboard endpoints
\* use for the song; otherwise it is another file.
InjectCoreSong(f, plain) ==
    /\ uploads' = uploads \cup {f}
    /\ scoresFile' = IF plain
                     THEN [scoresFile EXCEPT ![f] = ScoresContent(<<CoreDefaultScore(today)>>)]
                     ELSE scoresFile
    /\ UNCHANGED <<runVars, subVars, metadataFile, catalogFile, today, segVars, idVars, genVars>>

\* requests as the leaderboard endpoints can receive them: initials can be
\* the empty string, a score can be a negative number
BoardInitialsInputs == InitialsInputs \cup { <<>> }
BoardScoreInputs == ScoreInputs \cup { [kind |-> "int", val |-> -5] }

\* the body of a POST to /api/highscores as request.get_json() gives it:
\* json is FALSE when there is no JSON body (None); fields are the keys the
\* object has
REQUIRED_FIELDS == {"songId", "score", "initials"}

CompleteBodies ==
    {[json |-> TRUE, fields |-> REQUIRED_FIELDS, songId |-> song_id, initials |-> raw_initials,
      score |-> raw_score] :
        song_id \in Files, raw_initials \in BoardInitialsInputs, raw_score \in BoardScoreInputs}

IncompleteBodies ==
    {[json |-> j, fields |-> fields, songId |-> "f1", initials |-> <<"a", "b">>,
      score |-> [kind |-> "int", val |-> 50]] :
        j \in BOOLEAN, fields \in (SUBSET REQUIRED_FIELDS) \ {REQUIRED_FIELDS}}

\* SubmitScore that opens the scores file of the named song for writing
\* before it validates the body
SubmitScore_OpensFileFirst(s, body) ==
    IF ~body.json \/ body.fields = {} \/ ~(REQUIRED_FIELDS \subseteq body.fields)
    THEN /\ spc[s] = "idle"
         /\ \A q \in Subs : q < s => spc[q] # "idle"
         /\ submitsLeft > 0
         /\ submitsLeft' = submitsLeft - 1
         /\ spc' = [spc EXCEPT ![s] = "rejected"]
         /\ sresp' = [sresp EXCEPT ![s] = [status |-> 400, rank |-> 0, scores |-> <<>>]]
         /\ snew' = [snew EXCEPT ![s] = NoScore]
         /\ sdata' = [sdata EXCEPT ![s] = <<>>]
         /\ scoresFile' = [scoresFile EXCEPT ![body.songId] = ScoresContent(<<>>)]
         /\ UNCHANGED <<runVars, skey, uploads, metadataFile, catalogFile, today,
                        segVars, idVars, genVars>>
    ELSE SubmitLoad(s, body.songId, body.initials, body.score)

\* submit_score, lines 278-289: "if not data" and the required fields; a
\* complete body goes on to the validation of the score
SubmitScore(s, body) ==
    IF ~body.json \/ body.fields = {} \/ ~(REQUIRED_FIELDS \subseteq body.fields)
    THEN /\ spc[s] = "idle"
         /\ \A q \in Subs : q < s => spc[q] # "idle"
         /\ submitsLeft > 0
         /\ submitsLeft' = submitsLeft - 1
         /\ spc' = [spc EXCEPT ![s] = "rejected"]
         /\ sresp' = [sresp EXCEPT ![s] = [status |-> 400, rank |-> 0, scores |-> <<>>]]
         /\ snew' = [snew EXCEPT ![s] = NoScore]
         /\ sdata' = [sdata EXCEPT ![s] = <<>>]
         /\ UNCHANGED <<runVars, skey, uploads, metadataFile, catalogFile, scoresFile, today,
                        segVars, idVars, genVars>>
    ELSE SubmitLoad(s, body.songId, body.initials, body.score)

BoardStep(s) ==
    \/ \E body \in CompleteBodies \cup IncompleteBodies : SubmitScore(s, body)
    \/ SubmitSave(s)
    \/ SubmitDone(s)
    \/ \E song_id \in Files : GetHighScores(s, song_id)

\* leaderboards as earlier requests left them: the seeded default and n
\* records submitted on the first day, with scores 300 and 50 in turn
EarlierRecord(i) ==
    [initials |-> Initials(<<"a", "b">>), score |-> IF i % 2 = 1 THEN 300 ELSE 50, date |-> 1]
PriorBoard(n) == SortDesc(<<DefaultScore(1)>> \o [i \in 1..n |-> EarlierRecord(i)])

\* a scores file whose records are not in descending order (the file is
\* plain JSON in the data directory; get_high_scores does not rely on its
\* order), and a scores file that cannot be read
Reversed(x) == [i \in 1..Len(x) |-> x[Len(x) + 1 - i]]

BoardInputs ==
    {AbsentFile} \cup {ScoresContent(PriorBoard(n)) : n \in 0..MaxBoard}
                 \cup {ScoresContent(Reversed(PriorBoard(MaxBoard)))}
                 \cup {[state |-> "corrupt", scores |-> <<>>],
                       [state |-> "undecodable", scores |-> <<>>]}

\* ------------------------------------------- analyze_music: segment detector
\* A Feature Set as detect_segments reads it: the duration in whole seconds,
\* the generation_method == "fallback" mark, and the energy profile, sampled
\* every hop / rate seconds from time 0 (librosa.times_like), with integer
\* energies.
\* deps is the module's DEPENDENCIES_INSTALLED.
NoFeatureSet ==
    [duration |-> 1, degraded |-> TRUE, deps |-> TRUE, hop |-> 1, rate |-> 1, energy |-> <<>>]
NoSegments == [status |-> "none", scan |-> <<>>, change_points |-> <<>>, segments |-> <<>>]

\* time of the energy sample with 0-based index i, in twentieths of a second
TimeAt(f, i) == (i * f.hop * 20) \div f.rate
DurationTicks(f) == f.duration * 20

Seg(type, start, end, esum, ecount) ==
    [type |-> type, start |-> start, end |-> end, esum |-> esum, ecount |-> ecount]

\* generate_fallback_segments with a bridge of 15 percent of the duration
generate_fallback_segments_LongBridge(d) ==
    LET intro_end == Min(3 * d, 600)
        verse1_end == intro_end + Min(4 * d, 900)
        chorus1_end == verse1_end + Min(3 * d, 600)
        verse2_end == chorus1_end + Min(4 * d, 900)
        chorus2_end == verse2_end + Min(3 * d, 600)
        bridge_end == chorus2_end + Min(3 * d, 600)
        final_chorus_end == 20 * d - 100
    IN  << Seg("intro", 0, intro_end, 0, 0),
           Seg("verse", intro_end, verse1_end, 0, 0),
           Seg("chorus", verse1_end, chorus1_end, 0, 0),
           Seg("verse", chorus1_end, verse2_end, 0, 0),
           Seg("chorus", verse2_end, chorus2_end, 0, 0),
           Seg("bridge", chorus2_end, bridge_end, 0, 0),
           Seg("chorus", bridge_end, final_chorus_end, 0, 0),
           Seg("outro", final_chorus_end, 20 * d, 0, 0) >>

\* generate_fallback_segments(duration), in twentieths of a second:
\* duration * 0.15 is 3 * d, 30 seconds are 600, duration - 5 is 20 * d - 100
generate_fallback_segments(d) ==
    LET intro_end == Min(3 * d, 600)
        verse1_end == intro_end + Min(4 * d, 900)
        chorus1_end == verse1_end + Min(3 * d, 600)
        verse2_end == chorus1_end + Min(4 * d, 900)
        chorus2_end == verse2_end + Min(3 * d, 600)
        bridge_end == chorus2_end + Min(2 * d, 600)
        final_chorus_end == 20 * d - 100
    IN  << Seg("intro", 0, intro_end, 0, 0),
           Seg("verse", intro_end, verse1_end, 0, 0),
           Seg("chorus", verse1_end, chorus1_end, 0, 0),
           Seg("verse", chorus1_end, verse2_end, 0, 0),
           Seg("chorus", verse2_end, chorus2_end, 0, 0),
           Seg("bridge", chorus2_end, bridge_end, 0, 0),
           Seg("chorus", bridge_end, final_chorus_end, 0, 0),
           Seg("outro", final_chorus_end, 20 * d, 0, 0) >>

\* sum(x) and max(x), by halves
RECURSIVE SumSeq(_)
SumSeq(x) ==
    IF x = <<>> THEN 0
    ELSE IF Len(x) = 1 THEN x[1]
    ELSE SumSeq(SubSeq(x, 1, Len(x) \div 2)) + SumSeq(SubSeq(x, Len(x) \div 2 + 1, Len(x)))

RECURSIVE MaxSeq(_)
MaxSeq(x) ==
    IF Len(x) = 1 THEN x[1]
    ELSE Max(MaxSeq(SubSeq(x, 1, Len(x) \div 2)), MaxSeq(SubSeq(x, Len(x) \div 2 + 1, Len(x))))

\* scipy.ndimage.median_filter(x, size) with its default mode "reflect":
\* the window around 0-based index i is read through the edges as
\* (d c b a | a b c d | d c b a); the median of an odd window is its middle
\* element in sorted order.
Reflect(j, n) ==
    LET m == (j + 2 * n * 8) % (2 * n) IN IF m < n THEN m ELSE 2 * n - 1 - m

MedianOf(w) ==
    LET k == Len(w) \div 2 IN
    CHOOSE v \in {w[j] : j \in 1..Len(w)} :
        /\ Cardinality({j \in 1..Len(w) : w[j] < v}) <= k
        /\ Cardinality({j \in 1..Len(w) : w[j] <= v}) >= k + 1

median_filter(x, size) ==
    [i \in 1..Len(x) |->
        MedianOf([j \in 1..size |-> x[Reflect((i - 1) - (size \div 2) + (j - 1), Len(x)) + 1]])]

Abs(a) == IF a < 0 THEN -a ELSE a

\* window_size = max(30, min(int(len(norm_energy) * 0.04), 60))
WindowSize(n) == Max(30, Min((n * 4) \div 100, 60))

\* min_indices_between_segments = int(min_segment_duration * len(times) / duration)
MinIndices(n, d) == (10 * n) \div d

\* ChangeAt with any difference between the two windows counted as a change
ChangeAt_AnyDifference(sm, i, w) ==
    LET prev == SumSeq(SubSeq(sm, i - w + 1, i))
        next == SumSeq(SubSeq(sm, i + 1, i + w))
    IN  Abs(next - prev) > 0

\* The energies are kept as numerators over max_energy, so smoothed values,
\* window means and thresholds are compared exactly:
\*   abs(next_avg - prev_avg) > 0.35 * avg_energy
\* is 20 * n * |sum_next - sum_prev| > 7 * window_size * sum(smoothed).
ChangeAt(sm, i, w) ==
    LET prev == SumSeq(SubSeq(sm, i - w + 1, i))
        next == SumSeq(SubSeq(sm, i + 1, i + w))
    IN  20 * Len(sm) * Abs(next - prev) > 7 * w * SumSeq(sm)

\* lines 240-249: the scan over i in range(window_size, len - window_size)
RECURSIVE Scan(_, _, _, _, _)
Scan(sm, i, w, min_indices, change_points) ==
    IF i >= Len(sm) - w THEN change_points
    ELSE IF change_points # <<>> /\ i - change_points[Len(change_points)] < min_indices
         THEN Scan(sm, i + 1, w, min_indices, change_points)
    ELSE IF ChangeAt(sm, i, w)
         THEN Scan(sm, i + 1, w, min_indices, Append(change_points, i))
    ELSE Scan(sm, i + 1, w, min_indices, change_points)

InSeq(x, v) == \E j \in 1..Len(x) : x[j] = v

\* lines 251-257: start and end points are always included (the scan yields
\* its points in ascending order, between them, so sorted() keeps the order)
WithEnds(scan, n) ==
    LET a == IF InSeq(scan, 0) THEN scan ELSE <<0>> \o scan
    IN  IF InSeq(a, n - 1) THEN a ELSE Append(a, n - 1)

\* lines 260-264: the second minimum-spacing filter
RECURSIVE FilterSpacing(_, _, _)
FilterSpacing(filtered, rest, min_indices) ==
    IF rest = <<>> THEN filtered
    ELSE IF Head(rest) - filtered[Len(filtered)] >= min_indices
         THEN FilterSpacing(Append(filtered, Head(rest)), Tail(rest), min_indices)
    ELSE FilterSpacing(filtered, Tail(rest), min_indices)

Filtered(cps, min_indices) ==
    Append(FilterSpacing(<<0>>, SubSeq(cps, 2, Len(cps) - 1), min_indices), cps[Len(cps)])

\* SegmentType with the test for the last segment before the one for the first
SegmentType_OutroFirst(i, count, esum, ecount, n, total) ==
    IF i = count - 1 THEN "outro"
    ELSE IF i = 0 THEN "intro"
    ELSE IF 5 * n * esum > 7 * ecount * total THEN "chorus"
    ELSE IF 5 * n * esum < 3 * ecount * total THEN "verse"
    ELSE "bridge"

\* lines 282-291: segment_energy against 1.4 and 0.6 times avg_energy
SegmentType(i, count, esum, ecount, n, total) ==
    IF i = 0 THEN "intro"
    ELSE IF i = count - 1 THEN "outro"
    ELSE IF 5 * n * esum > 7 * ecount * total THEN "chorus"
    ELSE IF 5 * n * esum < 3 * ecount * total THEN "verse"
    ELSE "bridge"

\* lines 271-298
BuildSegments(f, sm, cps) ==
    [k \in 1..(Len(cps) - 1) |->
        LET start_idx == cps[k]
            end_idx == cps[k + 1]
            esum == SumSeq(SubSeq(sm, start_idx + 1, end_idx + 1))
            ecount == end_idx - start_idx + 1
        IN  Seg(SegmentType(k - 1, Len(cps) - 1, esum, ecount, Len(sm), SumSeq(sm)),
                TimeAt(f, start_idx), TimeAt(f, end_idx), esum, ecount)]

UsesTemplate(f) == ~f.deps \/ f.degraded

detect_segments(f) ==
    IF UsesTemplate(f)
    THEN [status |-> "ok", scan |-> <<>>, change_points |-> <<>>,
          segments |-> generate_fallback_segments(f.duration)]
    ELSE IF MaxSeq(f.energy) = 0
    THEN [status |-> "error", scan |-> <<>>, change_points |-> <<>>, segments |-> <<>>]
    ELSE LET n == Len(f.energy)
             sm == median_filter(median_filter(f.energy, 15), 9)
             w == WindowSize(n)
             min_indices == MinIndices(n, f.duration)
             scan == Scan(sm, w, w, min_indices, <<>>)
             cps == Filtered(WithEnds(scan, n), min_indices)
         IN  [status |-> "ok", scan |-> scan, change_points |-> cps,
              segments |-> BuildSegments(f, sm, cps)]

\* energy profiles with a level a up to a quarter of the track, a level b up
\* to three quarters and a level c to the end
Levels == {0, 2, 4}
Profile(n, a, b, c) ==
    [i \in 1..n |-> IF 4 * i <= n THEN a ELSE IF 4 * i <= 3 * n THEN b ELSE c]

MaxSamples == 121
SampleCounts == {n \in 1..MaxSamples : n % 20 = 1}

\* sampling periods hop / rate of the energy profile: 1 s, 2 s and 0.25 s
\* (librosa's frames of 512 samples are shorter still)
Samplings == { [hop |-> 1, rate |-> 1], [hop |-> 2, rate |-> 1], [hop |-> 1, rate |-> 4] }

\* measured Feature Sets: n samples every hop / rate seconds cover a track
\* of (n - 1) * hop / rate seconds or up to one sampling period more
MeasuredSets ==
    { f \in { [duration |-> ((n - 1) * p.hop) \div p.rate + extra, degraded |-> FALSE,
               deps |-> TRUE, hop |-> p.hop, rate |-> p.rate,
               energy |-> Profile(n, a, b, c)] :
                 n \in SampleCounts, p \in Samplings, extra \in {0, 1},
                 a \in Levels, b \in Levels, c \in Levels } :
        f.duration * f.rate < Len(f.energy) * f.hop }

\* Feature Sets of generate_fallback_analysis; without the dependencies every
\* Feature Set is one of these
DegradedSets ==
    { [duration |-> d, degraded |-> TRUE, deps |-> deps, hop |-> 1, rate |-> 1, energy |-> <<>>] :
         d \in 1..MaxDuration, deps \in BOOLEAN }

\* a track of two minutes whose energy is flat, doubles sharply at 30 s and
\* doubles again at 90 s, measured rate times a second, with noise of a small
\* amplitude on the samples; every combination at one and two samples a
\* second, two curves at four samples a second
CURVE_SECONDS == 120
FIRST_STEP == 30
SECOND_STEP == 90
StepRates == {1, 2}
FINE_RATE == 4
BaseLevels == {100, 150, 200}
NoiseKinds == {"alternating", "period3", "slow", "spikes", "scattered"}
NoiseAmplitudes == {1, 3}

Noise(kind, amp, j) ==
    CASE kind = "none" -> 0
      [] kind = "alternating" -> IF j % 2 = 0 THEN amp ELSE -amp
      [] kind = "period3" -> ((j % 3) - 1) * amp
      [] kind = "slow" -> IF j % 40 < 20 THEN amp ELSE -amp
      [] kind = "spikes" -> IF j % 7 = 0 THEN amp ELSE 0
      [] OTHER -> ((((j * 37) % 5) - 2) * amp) \div 2

StepCurve(rate, base, kind, amp) ==
    [duration |-> CURVE_SECONDS, degraded |-> FALSE, deps |-> TRUE, hop |-> 1, rate |-> rate,
     energy |-> [i \in 1..(CURVE_SECONDS * rate + 1) |->
                    (IF i - 1 < FIRST_STEP * rate THEN base
                     ELSE IF i - 1 < SECOND_STEP * rate THEN 2 * base
                     ELSE 4 * base) + Noise(kind, amp, i - 1)]]

StepCurves ==
    {StepCurve(rate, base, "none", 0) : rate \in StepRates, base \in BaseLevels}
        \cup {StepCurve(rate, base, kind, amp) :
                 rate \in StepRates, base \in BaseLevels, kind \in NoiseKinds,
                 amp \in NoiseAmplitudes}
        \cup {StepCurve(FINE_RATE, 100, "none", 0), StepCurve(FINE_RATE, 100, "slow", 3)}

Detect ==
    /\ segPc = "input"
    /\ segOut' = detect_segments(fs)
    /\ segPc' = "done"
    /\ UNCHANGED <<genVars, fs, idVars, runVars, subVars, uploads, metadataFile, catalogFile, scoresFile, today>>

\* ------------------------------------------- analyze_lyrics.identify_song
\* Text is a sequence of characters. The stem of the audio file and the
\* names the lookup service reports are such sequences.
SEP == <<" ", "-", " ">>
UNKNOWN_ARTIST == <<"U", "n", "k", "n", "o", "w", "n", " ", "A", "r", "t", "i", "s", "t">>

IsDigit(c) == c \in {"0", "1", "2", "3", "4", "5", "6", "7", "8", "9"}

\* s[a:b] of Python, a and b 0-based and within the text
Slice(s, a, b) == SubSeq(s, a + 1, Min(b, Len(s)))

\* s.find(sub) + 1: the 1-based position of the first occurrence of sub, or 0
IndexOf(s, sub) ==
    LET at == {i \in 1..(Len(s) - Len(sub) + 1) : SubSeq(s, i, i + Len(sub) - 1) = sub}
    IN  IF at = {} THEN 0 ELSE CHOOSE i \in at : \A j \in at : i <= j

\* sub in s
Contains(s, sub) == IndexOf(s, sub) # 0

\* s.strip()
RECURSIVE LStrip(_)
LStrip(s) == IF s # <<>> /\ Head(s) = " " THEN LStrip(Tail(s)) ELSE s
RECURSIVE RStrip(_)
RStrip(s) == IF s # <<>> /\ s[Len(s)] = " " THEN RStrip(SubSeq(s, 1, Len(s) - 1)) ELSE s
Strip(s) == RStrip(LStrip(s))

\* s.split(sep, 1)
SplitOnce(s, sep) ==
    LET i == IndexOf(s, sep)
    IN  IF i = 0 THEN <<s>>
        ELSE <<SubSeq(s, 1, i - 1), SubSeq(s, i + Len(sep), Len(s))>>

\* s.replace("_", " ")
ReplaceUnderscores(s) == [i \in 1..Len(s) |-> IF s[i] = "_" THEN " " ELSE s[i]]

Identity(title, artist) == [state |-> "ok", title |-> title, artist |-> artist]
NoIdentity == [state |-> "none", title |-> <<>>, artist |-> <<>>]

\* identify_song, lines 68-92: without the acoustid module the stem is
\* parsed, a two-digit track number followed by a space or a dash being
\* dropped first
ParseWithoutTrackNumber(stem) ==
    IF Contains(stem, SEP)
    THEN LET filename ==
                 IF /\ \A i \in 1..Len(Slice(stem, 0, 2)) : IsDigit(stem[i])
                    /\ Slice(stem, 2, 3) \in {<<" ">>, <<"-">>}
                 THEN Strip(Slice(stem, 3, Len(stem)))
                 ELSE stem
             parts == SplitOnce(filename, SEP)
         IN  IF Len(parts) = 2
             THEN Identity(Strip(parts[2]), Strip(parts[1]))
             ELSE Identity(ReplaceUnderscores(filename), UNKNOWN_ARTIST)
    ELSE Identity(ReplaceUnderscores(stem), UNKNOWN_ARTIST)

\* identify_song, lines 158-173 and 181-196: the stem is parsed as it is
ParseStem(stem) ==
    IF Contains(stem, SEP)
    THEN LET parts == SplitOnce(stem, SEP)
         IN  IF Len(parts) = 2
             THEN Identity(Strip(parts[2]), Strip(parts[1]))
             ELSE Identity(ReplaceUnderscores(stem), UNKNOWN_ARTIST)
    ELSE Identity(ReplaceUnderscores(stem), UNKNOWN_ARTIST)

\* What the lookup can come to: the acoustid module is missing; the API key
\* is missing (line 98 then calls fallback_to_filename_metadata, a name the
\* module does not define, and the NameError is caught at line 178);
\* fingerprint_file or lookup raises; the response holds "error"; it holds
\* no results; no recording of the results is acceptable; or a best match
\* is selected, whose title is non-empty and whose artist is the name the
\* service reports, which can be empty.
Lookup(kind) == [kind |-> kind, title |-> <<>>, artist |-> <<>>]
Match(title, artist) == [kind |-> "match", title |-> title, artist |-> artist]
NoLookup == Lookup("none")

FailureKinds ==
    {"no_capability", "no_api_key", "exception", "error_response", "empty_results",
     "no_acceptable"}

LookupOutcomes ==
    {Lookup(k) : k \in FailureKinds}
        \cup {Match(<<"S", "o">>, <<"B", "d">>), Match(<<"S", "o">>, <<>>)}

identify_song(stem, lookup) ==
    CASE lookup.kind = "no_capability" -> ParseWithoutTrackNumber(stem)
      [] lookup.kind \in {"no_api_key", "exception"} -> ParseStem(stem)
      [] lookup.kind = "error_response" -> NoIdentity
      [] lookup.kind = "empty_results" -> Identity(ReplaceUnderscores(stem), UNKNOWN_ARTIST)
      [] lookup.kind = "no_acceptable" -> ParseStem(stem)
      [] OTHER -> Identity(lookup.title, lookup.artist)

\* stems of audio files: an artist and a title around " - ", with or
\* without a two-digit track number in front, and stems without " - "
ArtistNames == { <<"A", "b">>, <<"A", " ", "b">> }
TitleNames == { <<"T", "i">>, <<"T", "_", "i">>, <<"T", " ", "-", " ", "i">> }
TrackPrefixes == { <<>>, <<"0", "1", " ">>, <<"0", "1", "-">> }

StemInputs ==
    {p \o a \o SEP \o t : p \in TrackPrefixes, a \in ArtistNames, t \in TitleNames}
        \cup { <<"T", "i">>, <<"T", "_", "i">>, <<"0", "1", " ", "T", "i">>,
               <<"0", "1", " ", "-", " ", "T", "i">> }

IdentifySong ==
    /\ idPc = "called"
    /\ idOut' = identify_song(idIn.stem, idIn.lookup)
    /\ idPc' = "returned"
    /\ UNCHANGED <<genVars, idIn, runVars, subVars, segVars, uploads, metadataFile, catalogFile,
                   scoresFile, today>>

\* ------------------------------------------------- synthetic feature sets
\* Times are in hundredths of a second.  A file size is counted in sixtieths
\* of a mebibyte, so that file_size / (1024 * 1024) * 60 is the size itself,
\* in seconds.
MaxFileSize == 30
LongFileSize == 200
PLACEHOLDER_NOTES == 50
PLACEHOLDER_SPAN == 18000

FileSizes == (0..MaxFileSize) \cup {LongFileSize}

\* tempos random.uniform(85, 120) can return whose beat interval is a whole
\* number of hundredths
Tempos == {100, 120}

\* what the random module can hand out over one call of the generator
RandomSources == {"low", "high", "alternating", "scattered"}

\* the i-th value random.uniform(lo, hi) returns from the source
Uniform(source, i, lo, hi) ==
    CASE source = "low" -> lo
      [] source = "high" -> hi
      [] source = "alternating" -> IF i % 2 = 0 THEN lo ELSE hi
      [] OTHER -> lo + (((i * 37) % 101) * (hi - lo)) \div 100

\* list.sort() on numbers: position k holds the k-th smallest value
SortAsc(times) ==
    [k \in 1..Len(times) |->
        CHOOSE v \in {times[i] : i \in 1..Len(times)} :
            /\ Cardinality({i \in 1..Len(times) : times[i] < v}) < k
            /\ k <= Cardinality({i \in 1..Len(times) : times[i] <= v})]

\* the times of the notes generate_placeholder_notes returns: fifty draws
\* from the first three minutes, sorted
generate_placeholder_notes(source) ==
    SortAsc([i \in 1..PLACEHOLDER_NOTES |-> Uniform(source, i - 1, 0, PLACEHOLDER_SPAN)])

NoGeneratorInput == [file_size |-> 0, tempo |-> 100, source |-> "low"]
NoAnalysis == [state |-> "none"]

generate_fallback_analysis(file_size, tempo, source) ==
    LET estimated_duration == file_size * 100
        beat_interval == 6000 \div tempo
        beats == [i \in 1..(estimated_duration \div beat_interval) |-> (i - 1) * beat_interval]
        onset_count == (estimated_duration * 2) \div 100
        onsets == SortAsc([i \in 1..onset_count |-> Uniform(source, i - 1, 0, estimated_duration)])
        energy_times == [i \in 1..(estimated_duration \div 100 + 1) |-> (i - 1) * 100]
    IN  [state |-> "ok",
         duration |-> estimated_duration,
         tempo |-> tempo,
         beats |-> beats,
         onsets |-> onsets,
         energy_times |-> energy_times,
         note_times |-> generate_placeholder_notes(source)]

GenerateFallback ==
    /\ genPc = "called"
    /\ genOut' = generate_fallback_analysis(genIn.file_size, genIn.tempo, genIn.source)
    /\ genPc' = "returned"
    /\ UNCHANGED <<genIn, idVars, runVars, subVars, segVars, uploads, metadataFile, catalogFile,
                   scoresFile, today>>

\* ---------------------------------------------------------- specifications
Init ==
    /\ pc = [r \in Runs |-> "idle"]
    /\ file = [r \in Runs |-> "f1"]
    /\ stages = [r \in Runs |-> <<>>]
    /\ analysisOk = [r \in Runs |-> FALSE]
    /\ lyricsOk = [r \in Runs |-> FALSE]
    /\ localCatalog = [r \in Runs |-> <<>>]
    /\ songInfo = [r \in Runs |-> NoMetadata]
    /\ runsLeft = MaxStarts
    /\ uploads = {}
    /\ metadataFile = [f \in Files |-> NoMetadata]
    /\ catalogFile = NoCatalog
    /\ scoresFile = [f \in Files |-> AbsentFile]
    /\ spc = [s \in Subs |-> "idle"]
    /\ skey = [s \in Subs |-> "f1"]
    /\ snew = [s \in Subs |-> NoScore]
    /\ sdata = [s \in Subs |-> <<>>]
    /\ sresp = [s \in Subs |-> NoResponse]
    /\ submitsLeft = MaxSubmits
    /\ today = 1
    /\ logger = [r \in Runs |-> NoLogger]
    /\ exitStatus = [r \in Runs |-> -1]
    /\ logFile = [f \in Files |-> NoLog]
    /\ fs = NoFeatureSet
    /\ segPc = "none"
    /\ segOut = NoSegments
    /\ idIn = [stem |-> <<>>, lookup |-> NoLookup]
    /\ idPc = "none"
    /\ idOut = NoIdentity
    /\ genIn = NoGeneratorInput
    /\ genPc = "none"
    /\ genOut = NoAnalysis

\* Worker processes take their steps in any interleaving: upload_song
\* starts process_upload.py with Popen and returns.
Next == \E r \in Runs : RunStep(r)

Spec == Init /\ [][Next]_vars

\* A started process is scheduled until it ends: subprocess.run returns when
\* the script ends, and main has no loop and waits for nothing else.
SpecLive == Spec /\ \A r \in Runs : WF_vars(RunProgress(r))

\* One operation at a time, within one day: a run or a submission is started
\* only when no other run or submission is in progress.
RunIdle(r) == pc[r] = "idle"
SubIdle(s) == spc[s] = "idle"
Quiet == (\A r \in Runs : RunIdle(r)) /\ (\A s \in Subs : SubIdle(s))

OpsStarted == (MaxStarts - runsLeft) + (MaxSubmits - submitsLeft)
MayStart == Quiet /\ OpsStarted < MaxSeqOps

NextSeq ==
    \/ \E r \in Runs : RunStep(r) /\ (RunIdle(r) => MayStart)
    \/ \E s \in Subs : SubStep(s) /\ (SubIdle(s) => MayStart)

SpecSeq == Init /\ [][NextSeq]_vars

\* Score submissions handled by concurrent request threads, for songs that
\* have been uploaded and whose leaderboard a run has seeded or not yet.
InitSubmit ==
    /\ pc = [r \in Runs |-> "idle"]
    /\ file = [r \in Runs |-> "f1"]
    /\ stages = [r \in Runs |-> <<>>]
    /\ analysisOk = [r \in Runs |-> FALSE]
    /\ lyricsOk = [r \in Runs |-> FALSE]
    /\ localCatalog = [r \in Runs |-> <<>>]
    /\ songInfo = [r \in Runs |-> NoMetadata]
    /\ runsLeft = 0
    /\ uploads \in SUBSET Files
    /\ metadataFile = [f \in Files |-> NoMetadata]
    /\ catalogFile = NoCatalog
    /\ scoresFile \in [Files -> {AbsentFile, ScoresContent(<<DefaultScore(1)>>)}]
    /\ \A f \in Files : scoresFile[f].state = "ok" => f \in uploads
    /\ spc = [s \in Subs |-> "idle"]
    /\ skey = [s \in Subs |-> "f1"]
    /\ snew = [s \in Subs |-> NoScore]
    /\ sdata = [s \in Subs |-> <<>>]
    /\ sresp = [s \in Subs |-> NoResponse]
    /\ submitsLeft = MaxSubmits
    /\ today = 1
    /\ logger = [r \in Runs |-> NoLogger]
    /\ exitStatus = [r \in Runs |-> -1]
    /\ logFile = [f \in Files |-> NoLog]
    /\ fs = NoFeatureSet
    /\ segPc = "none"
    /\ segOut = NoSegments
    /\ idIn = [stem |-> <<>>, lookup |-> NoLookup]
    /\ idPc = "none"
    /\ idOut = NoIdentity
    /\ genIn = NoGeneratorInput
    /\ genPc = "none"
    /\ genOut = NoAnalysis

NextSubmit ==
    \/ \E s \in Subs : SubStep(s)
    \/ Tick

SpecSubmit == InitSubmit /\ [][NextSubmit]_vars

\* One run of the pipeline against a catalog file as earlier runs, an
\* interrupted write or an edit of the JSON file left it. The entries are
\* those of songs identified by their file name.
OldEntry(f) ==
    CatalogEntry([state |-> "ok", title |-> f, artist |-> "Unknown Artist", filename |-> f])

CatalogInputs ==
    { NoCatalog,
      [state |-> "corrupt", entries |-> <<>>],
      [state |-> "undecodable", entries |-> <<>>],
      CatalogContent(<<>>),
      CatalogContent(<<OldEntry("f1")>>),
      CatalogContent(<<OldEntry("f2")>>),
      CatalogContent(<<OldEntry("f1"), OldEntry("f2")>>),
      CatalogContent(<<OldEntry("f1"), OldEntry("f2"), OldEntry("f1")>>) }

InitUpsert ==
    /\ pc = [r \in Runs |-> "idle"]
    /\ file = [r \in Runs |-> "f1"]
    /\ stages = [r \in Runs |-> <<>>]
    /\ analysisOk = [r \in Runs |-> FALSE]
    /\ lyricsOk = [r \in Runs |-> FALSE]
    /\ localCatalog = [r \in Runs |-> <<>>]
    /\ songInfo = [r \in Runs |-> NoMetadata]
    /\ runsLeft = 1
    /\ uploads = {}
    /\ metadataFile = [f \in Files |-> NoMetadata]
    /\ catalogFile \in CatalogInputs
    /\ scoresFile = [f \in Files |-> AbsentFile]
    /\ spc = [s \in Subs |-> "idle"]
    /\ skey = [s \in Subs |-> "f1"]
    /\ snew = [s \in Subs |-> NoScore]
    /\ sdata = [s \in Subs |-> <<>>]
    /\ sresp = [s \in Subs |-> NoResponse]
    /\ submitsLeft = 0
    /\ today = 1
    /\ logger = [r \in Runs |-> NoLogger]
    /\ exitStatus = [r \in Runs |-> -1]
    /\ logFile = [f \in Files |-> NoLog]
    /\ fs = NoFeatureSet
    /\ segPc = "none"
    /\ segOut = NoSegments
    /\ idIn = [stem |-> <<>>, lookup |-> NoLookup]
    /\ idPc = "none"
    /\ idOut = NoIdentity
    /\ genIn = NoGeneratorInput
    /\ genPc = "none"
    /\ genOut = NoAnalysis

NextUpsert == RunStep(1)

SpecUpsert == InitUpsert /\ [][NextUpsert]_vars

\* The leaderboard endpoints serving one request at a time, for a song
\* that has been uploaded (f1) and one that has not (f2), from the first
\* request on or after earlier requests.
InitBoard ==
    /\ pc = [r \in Runs |-> "idle"]
    /\ file = [r \in Runs |-> "f1"]
    /\ stages = [r \in Runs |-> <<>>]
    /\ analysisOk = [r \in Runs |-> FALSE]
    /\ lyricsOk = [r \in Runs |-> FALSE]
    /\ localCatalog = [r \in Runs |-> <<>>]
    /\ songInfo = [r \in Runs |-> NoMetadata]
    /\ runsLeft = 0
    /\ uploads = {"f1"}
    /\ metadataFile = [f \in Files |-> NoMetadata]
    /\ catalogFile = NoCatalog
    /\ \E board \in BoardInputs : scoresFile = [f \in Files |-> IF f = "f1" THEN board ELSE AbsentFile]
    /\ spc = [s \in Subs |-> "idle"]
    /\ skey = [s \in Subs |-> "f1"]
    /\ snew = [s \in Subs |-> NoScore]
    /\ sdata = [s \in Subs |-> <<>>]
    /\ sresp = [s \in Subs |-> NoResponse]
    /\ submitsLeft = MaxSubmits
    /\ today = 1
    /\ logger = [r \in Runs |-> NoLogger]
    /\ exitStatus = [r \in Runs |-> -1]
    /\ logFile = [f \in Files |-> NoLog]
    /\ fs = NoFeatureSet
    /\ segPc = "none"
    /\ segOut = NoSegments
    /\ idIn = [stem |-> <<>>, lookup |-> NoLookup]
    /\ idPc = "none"
    /\ idOut = NoIdentity
    /\ genIn = NoGeneratorInput
    /\ genPc = "none"
    /\ genOut = NoAnalysis

\* one request thread serves the requests, each to its end
NextBoard == BoardStep(1)

SpecBoard == InitBoard /\ [][NextBoard]_vars

\* Core songs: inject_core_song.py is run from the command line, any number
\* of times for a song, while the server answers the leaderboard requests
\* one at a time. No song is uploaded.
InitCore ==
    /\ pc = [r \in Runs |-> "idle"]
    /\ file = [r \in Runs |-> "f1"]
    /\ stages = [r \in Runs |-> <<>>]
    /\ analysisOk = [r \in Runs |-> FALSE]
    /\ lyricsOk = [r \in Runs |-> FALSE]
    /\ localCatalog = [r \in Runs |-> <<>>]
    /\ songInfo = [r \in Runs |-> NoMetadata]
    /\ runsLeft = 0
    /\ uploads = {}
    /\ metadataFile = [f \in Files |-> NoMetadata]
    /\ catalogFile = NoCatalog
    /\ scoresFile = [f \in Files |-> AbsentFile]
    /\ spc = [s \in Subs |-> "idle"]
    /\ skey = [s \in Subs |-> "f1"]
    /\ snew = [s \in Subs |-> NoScore]
    /\ sdata = [s \in Subs |-> <<>>]
    /\ sresp = [s \in Subs |-> NoResponse]
    /\ submitsLeft = MaxSubmits
    /\ today = 1
    /\ logger = [r \in Runs |-> NoLogger]
    /\ exitStatus = [r \in Runs |-> -1]
    /\ logFile = [f \in Files |-> NoLog]
    /\ fs = NoFeatureSet
    /\ segPc = "none"
    /\ segOut = NoSegments
    /\ idIn = [stem |-> <<>>, lookup |-> NoLookup]
    /\ idPc = "none"
    /\ idOut = NoIdentity
    /\ genIn = NoGeneratorInput
    /\ genPc = "none"
    /\ genOut = NoAnalysis

NextCore ==
    \/ \E f \in Files, plain \in BOOLEAN : InjectCoreSong(f, plain)
    \/ BoardStep(1)

SpecCore == InitCore /\ [][NextCore]_vars

\* An upload and a score submission for it: upload_song saves the file and
\* starts process_upload.py in the background with Popen, and the server
\* goes on answering requests, so the steps of the run and of a submission
\* interleave in any order.
InitRace ==
    /\ pc = [r \in Runs |-> "idle"]
    /\ file = [r \in Runs |-> "f1"]
    /\ stages = [r \in Runs |-> <<>>]
    /\ analysisOk = [r \in Runs |-> FALSE]
    /\ lyricsOk = [r \in Runs |-> FALSE]
    /\ localCatalog = [r \in Runs |-> <<>>]
    /\ songInfo = [r \in Runs |-> NoMetadata]
    /\ runsLeft = 1
    /\ uploads = {}
    /\ metadataFile = [f \in Files |-> NoMetadata]
    /\ catalogFile = NoCatalog
    /\ scoresFile = [f \in Files |-> AbsentFile]
    /\ spc = [s \in Subs |-> "idle"]
    /\ skey = [s \in Subs |-> "f1"]
    /\ snew = [s \in Subs |-> NoScore]
    /\ sdata = [s \in Subs |-> <<>>]
    /\ sresp = [s \in Subs |-> NoResponse]
    /\ submitsLeft = 1
    /\ today = 1
    /\ logger = [r \in Runs |-> NoLogger]
    /\ exitStatus = [r \in Runs |-> -1]
    /\ logFile = [f \in Files |-> NoLog]
    /\ fs = NoFeatureSet
    /\ segPc = "none"
    /\ segOut = NoSegments
    /\ idIn = [stem |-> <<>>, lookup |-> NoLookup]
    /\ idPc = "none"
    /\ idOut = NoIdentity
    /\ genIn = NoGeneratorInput
    /\ genPc = "none"
    /\ genOut = NoAnalysis

NextRace ==
    \/ RunStep(1)
    \/ SubStep(1)

SpecRace == InitRace /\ [][NextRace]_vars

\* The Segment Detector applied to one Feature Set.
InitSeg ==
    /\ pc = [r \in Runs |-> "idle"]
    /\ file = [r \in Runs |-> "f1"]
    /\ stages = [r \in Runs |-> <<>>]
    /\ analysisOk = [r \in Runs |-> FALSE]
    /\ lyricsOk = [r \in Runs |-> FALSE]
    /\ localCatalog = [r \in Runs |-> <<>>]
    /\ songInfo = [r \in Runs |-> NoMetadata]
    /\ runsLeft = 0
    /\ uploads = {}
    /\ metadataFile = [f \in Files |-> NoMetadata]
    /\ catalogFile = NoCatalog
    /\ scoresFile = [f \in Files |-> AbsentFile]
    /\ spc = [s \in Subs |-> "idle"]
    /\ skey = [s \in Subs |-> "f1"]
    /\ snew = [s \in Subs |-> NoScore]
    /\ sdata = [s \in Subs |-> <<>>]
    /\ sresp = [s \in Subs |-> NoResponse]
    /\ submitsLeft = 0
    /\ today = 1
    /\ logger = [r \in Runs |-> NoLogger]
    /\ exitStatus = [r \in Runs |-> -1]
    /\ logFile = [f \in Files |-> NoLog]
    /\ fs \in MeasuredSets \cup DegradedSets
    /\ fs.duration > 0
    /\ segPc = "input"
    /\ segOut = NoSegments
    /\ idIn = [stem |-> <<>>, lookup |-> NoLookup]
    /\ idPc = "none"
    /\ idOut = NoIdentity
    /\ genIn = NoGeneratorInput
    /\ genPc = "none"
    /\ genOut = NoAnalysis

NextSeg == Detect

SpecSeg == InitSeg /\ [][NextSeg]_vars

\* The Segment Detector applied to one two-minute curve with two steps.
InitStep ==
    /\ pc = [r \in Runs |-> "idle"]
    /\ file = [r \in Runs |-> "f1"]
    /\ stages = [r \in Runs |-> <<>>]
    /\ analysisOk = [r \in Runs |-> FALSE]
    /\ lyricsOk = [r \in Runs |-> FALSE]
    /\ localCatalog = [r \in Runs |-> <<>>]
    /\ songInfo = [r \in Runs |-> NoMetadata]
    /\ runsLeft = 0
    /\ uploads = {}
    /\ metadataFile = [f \in Files |-> NoMetadata]
    /\ catalogFile = NoCatalog
    /\ scoresFile = [f \in Files |-> AbsentFile]
    /\ spc = [s \in Subs |-> "idle"]
    /\ skey = [s \in Subs |-> "f1"]
    /\ snew = [s \in Subs |-> NoScore]
    /\ sdata = [s \in Subs |-> <<>>]
    /\ sresp = [s \in Subs |-> NoResponse]
    /\ submitsLeft = 0
    /\ today = 1
    /\ logger = [r \in Runs |-> NoLogger]
    /\ exitStatus = [r \in Runs |-> -1]
    /\ logFile = [f \in Files |-> NoLog]
    /\ fs \in StepCurves
    /\ fs.duration > 0
    /\ segPc = "input"
    /\ segOut = NoSegments
    /\ idIn = [stem |-> <<>>, lookup |-> NoLookup]
    /\ idPc = "none"
    /\ idOut = NoIdentity
    /\ genIn = NoGeneratorInput
    /\ genPc = "none"
    /\ genOut = NoAnalysis

NextStep == Detect

SpecStep == InitStep /\ [][NextStep]_vars

\* identify_song applied to one file stem, on one outcome of the lookup.
InitIdentify ==
    /\ pc = [r \in Runs |-> "idle"]
    /\ file = [r \in Runs |-> "f1"]
    /\ stages = [r \in Runs |-> <<>>]
    /\ analysisOk = [r \in Runs |-> FALSE]
    /\ lyricsOk = [r \in Runs |-> FALSE]
    /\ localCatalog = [r \in Runs |-> <<>>]
    /\ songInfo = [r \in Runs |-> NoMetadata]
    /\ runsLeft = 0
    /\ uploads = {}
    /\ metadataFile = [f \in Files |-> NoMetadata]
    /\ catalogFile = NoCatalog
    /\ scoresFile = [f \in Files |-> AbsentFile]
    /\ spc = [s \in Subs |-> "idle"]
    /\ skey = [s \in Subs |-> "f1"]
    /\ snew = [s \in Subs |-> NoScore]
    /\ sdata = [s \in Subs |-> <<>>]
    /\ sresp = [s \in Subs |-> NoResponse]
    /\ submitsLeft = 0
    /\ today = 1
    /\ logger = [r \in Runs |-> NoLogger]
    /\ exitStatus = [r \in Runs |-> -1]
    /\ logFile = [f \in Files |-> NoLog]
    /\ fs = NoFeatureSet
    /\ segPc = "none"
    /\ segOut = NoSegments
    /\ idIn \in [stem : StemInputs, lookup : LookupOutcomes]
    /\ idPc = "called"
    /\ idOut = NoIdentity
    /\ genIn = NoGeneratorInput
    /\ genPc = "none"
    /\ genOut = NoAnalysis

NextIdentify == IdentifySong

SpecIdentify == InitIdentify /\ [][NextIdentify]_vars

\* one call of the synthetic generator on every file size and random source
InitFallback ==
    /\ pc = [r \in Runs |-> "idle"]
    /\ file = [r \in Runs |-> "f1"]
    /\ stages = [r \in Runs |-> <<>>]
    /\ analysisOk = [r \in Runs |-> FALSE]
    /\ lyricsOk = [r \in Runs |-> FALSE]
    /\ localCatalog = [r \in Runs |-> <<>>]
    /\ songInfo = [r \in Runs |-> NoMetadata]
    /\ runsLeft = 0
    /\ uploads = {}
    /\ metadataFile = [f \in Files |-> NoMetadata]
    /\ catalogFile = NoCatalog
    /\ scoresFile = [f \in Files |-> AbsentFile]
    /\ spc = [s \in Subs |-> "idle"]
    /\ skey = [s \in Subs |-> "f1"]
    /\ snew = [s \in Subs |-> NoScore]
    /\ sdata = [s \in Subs |-> <<>>]
    /\ sresp = [s \in Subs |-> NoResponse]
    /\ submitsLeft = 0
    /\ today = 1
    /\ logger = [r \in Runs |-> NoLogger]
    /\ exitStatus = [r \in Runs |-> -1]
    /\ logFile = [f \in Files |-> NoLog]
    /\ fs = NoFeatureSet
    /\ segPc = "none"
    /\ segOut = NoSegments
    /\ idIn = [stem |-> <<>>, lookup |-> NoLookup]
    /\ idPc = "none"
    /\ idOut = NoIdentity
    /\ genIn \in [file_size : FileSizes, tempo : Tempos, source : RandomSources]
    /\ genPc = "called"
    /\ genOut = NoAnalysis

NextFallback == GenerateFallback

SpecFallback == InitFallback /\ [][NextFallback]_vars

\* ------------------------------------------------------------------ claims
HasEvent(r, kind, stage) == \E i \in 1..Len(stages[r]) : stages[r][i] = Event(kind, stage)

StageIndex(stage) == CHOOSE k \in 1..Len(StageOrder) : StageOrder[k] = stage

\* C1: once the analysis script of a run has failed (in Analyze, or in the
\* Segment step of the same script), the run starts no stage any more: no
\* Segment, FetchLyrics or Organize event follows the failure, and the run
\* is never at a position of a later step.
C1_AnalyzeFailureStopsRun ==
    \A r \in Runs : \A i \in 1..Len(stages[r]) :
        (stages[r][i].ev = "fail" /\ stages[r][i].stage \in {"Analyze", "Segment"})
            => /\ i = Len(stages[r])
               /\ pc[r] \in {"analysis_returned", "failed"}

C1_Witness ==
    \E r \in Runs : pc[r] = "failed" /\ HasEvent(r, "fail", "Analyze")

\* C2 as claimed: with the order Identify, Analyze, Segment, FetchLyrics,
\* Organize, InitLeaderboard, a stage starts only when every stage before it
\* in that list has finished.
ClaimedOrder == <<"Identify", "Analyze", "Segment", "FetchLyrics", "Organize", "InitLeaderboard">>

C3_BothSubmissionsPersisted ==
    \A s \in Subs : \A t \in Subs :
        (s # t /\ spc[s] = "returned" /\ spc[t] = "returned" /\ skey[s] = skey[t])
            => /\ InSeq(scoresFile[skey[s]].scores, snew[s])
               /\ InSeq(scoresFile[skey[s]].scores, snew[t])

\* C4: when two runs for different songs have both completed Organize, the
\* catalog holds an entry for each of the two songs.
InCatalog(f) == \E i \in 1..Len(catalogFile.entries) : catalogFile.entries[i].filename = f

C4_BothSongsInCatalog ==
    \A r \in Runs : \A q \in Runs :
        (r # q /\ file[r] # file[q] /\ HasEvent(r, "end", "Organize") /\ HasEvent(q, "end", "Organize"))
            => InCatalog(file[r]) /\ InCatalog(file[q])

\* C5: with runs executed one after the other from an empty catalog, the
\* catalog never holds two entries with the same filename.
C5_OneEntryPerFilename ==
    \A i \in 1..Len(catalogFile.entries) : \A j \in 1..Len(catalogFile.entries) :
        i # j => catalogFile.entries[i].filename # catalogFile.entries[j].filename

\* a second run on the same file has saved the catalog: the catalog it
\* loaded already held the file, and the saved catalog holds it once
C5_Witness ==
    \E r \in Runs :
        /\ HasEvent(r, "end", "Organize")
        /\ \E i \in 1..Len(localCatalog[r]) : localCatalog[r][i].filename = file[r]
        /\ Cardinality({i \in 1..Len(catalogFile.entries) :
                            catalogFile.entries[i].filename = file[r]}) = 1

\* C6: with operations executed one after the other, InitLeaderboard leaves
\* an existing leaderboard file as it is, and creates a file holding exactly
\* the default entry when there is none; nothing else of the leaderboards
\* changes in the stage.
C6_InitLeaderboardIdempotent ==
    [][\A r \in Runs :
          /\ (pc[r] = "initlb" /\ pc'[r] # "initlb")
                => /\ scoresFile' = scoresFile
                   /\ (pc'[r] = "done") = (scoresFile[file[r]].state # "absent")
          /\ (pc[r] = "initlb_write" /\ pc'[r] # "initlb_write")
                => /\ scoresFile[file[r]].state = "absent"
                   /\ scoresFile' = [scoresFile EXCEPT ![file[r]] =
                                         ScoresContent(<<DefaultScore(today)>>)]
      ]_vars

\* a finished run of a song whose leaderboard holds the seeded default and a
\* submitted score, after two runs on that one song
C6_Witness ==
    \E r \in Runs :
        /\ pc[r] = "done" /\ HasEvent(r, "end", "InitLeaderboard")
        /\ runsLeft <= MaxStarts - 2 /\ uploads = {file[r]}
        /\ Len(scoresFile[file[r]].scores) >= 2
        /\ \E i \in 1..Len(scoresFile[file[r]].scores) :
              scoresFile[file[r]].scores[i].initials = DEFAULT_INITIALS

\* C7: the returned segments are ordered by start time and contiguous, the
\* first starts at 0 and the last ends at the duration of the Feature Set.
C7_SegmentsCoverTrack ==
    (segPc = "done" /\ segOut.status = "ok") =>
        LET g == segOut.segments IN
        /\ Len(g) >= 1
        /\ g[1].start = 0
        /\ g[Len(g)].end = DurationTicks(fs)
        /\ \A k \in 1..(Len(g) - 1) : g[k + 1].start = g[k].end /\ g[k].start <= g[k + 1].start

TemplateTypes == <<"intro", "verse", "chorus", "verse", "chorus", "bridge", "chorus", "outro">>
SegLen(g, k) == g[k].end - g[k].start

\* C8 as claimed: for a degraded Feature Set the result is the 8 template
\* segments and the length of each is a fixed proportion of the duration
\* (the same share of the track for every duration).
C8_TemplateProportional ==
    (segPc = "done" /\ UsesTemplate(fs)) =>
        /\ Len(segOut.segments) = 8
        /\ \A k \in 1..8 : segOut.segments[k].type = TemplateTypes[k]
        /\ \A d \in 1..MaxDuration : \A k \in 1..8 :
              SegLen(segOut.segments, k) * d
                  = SegLen(generate_fallback_segments(d), k) * fs.duration

\* C8 amended: for a degraded Feature Set the numeric scan is skipped and the
\* result is 8 segments with the template types in order; the first six
\* last 15, 20, 15, 20, 15 and 10 percent of the duration, but at most 30,
\* 45, 30, 45, 30 and 30 seconds, the outro is the last 5 seconds, and the
\* final chorus runs from the end of the bridge to the start of the outro.
TemplateShare == <<3, 4, 3, 4, 3, 2>>          \* twentieths of the duration
TemplateCap == <<30, 45, 30, 45, 30, 30>>      \* seconds

C8_TemplateShape ==
    (segPc = "done" /\ UsesTemplate(fs)) =>
        LET g == segOut.segments IN
        /\ segOut.status = "ok" /\ segOut.scan = <<>> /\ segOut.change_points = <<>>
        /\ Len(g) = 8
        /\ \A k \in 1..8 : g[k].type = TemplateTypes[k]
        /\ \A k \in 1..6 :
              /\ 20 * SegLen(g, k) <= TemplateShare[k] * DurationTicks(fs)
              /\ SegLen(g, k) <= 20 * TemplateCap[k]
              /\ \/ 20 * SegLen(g, k) = TemplateShare[k] * DurationTicks(fs)
                 \/ SegLen(g, k) = 20 * TemplateCap[k]
        /\ SegLen(g, 8) = 100 /\ g[8].end = DurationTicks(fs)
        /\ g[1].start = 0
        /\ \A k \in 1..7 : g[k + 1].start = g[k].end

C8_Witness ==
    /\ segPc = "done" /\ fs.degraded /\ fs.deps /\ fs.duration > 200
    /\ Len(segOut.segments) = 8

NumericNoChange == segPc = "done" /\ ~UsesTemplate(fs) /\ segOut.status = "ok" /\ segOut.scan = <<>>

\* C9 as claimed: when the scan accepts no interior change point, the result
\* is two segments, an intro and an outro, that span the whole track.
C9_IntroAndOutro ==
    NumericNoChange =>
        /\ Len(segOut.segments) = 2
        /\ segOut.segments[1].type = "intro"
        /\ segOut.segments[2].type = "outro"
        /\ segOut.segments[1].start = 0
        /\ segOut.segments[2].end = TimeAt(fs, Len(fs.energy) - 1)

\* C9 amended: when the scan accepts no interior change point, the boundaries
\* are the first and the final index and the result is exactly one segment,
\* typed intro, from the first to the last sample of the energy profile.
C9_SingleIntro ==
    NumericNoChange =>
        /\ segOut.change_points = <<0, Len(fs.energy) - 1>>
        /\ Len(segOut.segments) = 1
        /\ segOut.segments[1].type = "intro"
        /\ segOut.segments[1].start = 0
        /\ segOut.segments[1].end = TimeAt(fs, Len(fs.energy) - 1)

\* a profile long enough for the scan to look at indices, none accepted
C9_Witness ==
    NumericNoChange /\ Len(fs.energy) > 2 * WindowSize(Len(fs.energy))

\* C10: every returned segment has 0 <= start <= end <= duration.
C10_SegmentBounds ==
    (segPc = "done" /\ segOut.status = "ok") =>
        \A k \in 1..Len(segOut.segments) :
            /\ 0 <= segOut.segments[k].start
            /\ segOut.segments[k].start <= segOut.segments[k].end
            /\ segOut.segments[k].end <= DurationTicks(fs)

\* ------------------------------------------------- leaderboard endpoints
\* A submission that is saved goes from "loaded" to "returned"; a read goes
\* from "idle" to "read".
Saves(s) == spc[s] = "loaded" /\ spc'[s] = "returned"
Reads(s) == spc[s] = "idle" /\ spc'[s] = "read"

IsSortedDesc(x) == \A i \in 1..(Len(x) - 1) : x[i].score >= x[i + 1].score

\* Where the record a call appends ends up in the sorted list: it is the last
\* element before the sort and the sort is stable, so it follows every
\* record whose score is at least its own.
InsertedAt(prior, new_score) ==
    1 + Cardinality({i \in 1..Len(prior) : prior[i].score >= new_score.score})

\* C11: the rank in the response of a submission is the 1-based position, in
\* the sorted list the call saved, of the record the call inserted, whatever
\* the leaderboard held before, a record with the same initials, score and
\* date included.
C11_RankOfInsertedRecord ==
    [][\A s \in Subs : Saves(s) => sresp'[s].rank = InsertedAt(sdata[s], snew[s])]_vars

\* C12: with requests served one at a time, a successful submission to a
\* leaderboard that holds the seeded default and the records submitted so
\* far, in descending order, leaves every earlier record in place and in
\* order, adds the submitted record after the records whose score is at
\* least its own (so equal scores stay in insertion order), and truncates
\* nothing: the persisted list is one longer, also beyond 10 records.
C12_SubmissionsAllPersisted ==
    [][\A s \in Subs :
          (Saves(s) /\ IsSortedDesc(LoadScores(scoresFile[skey[s]]))) =>
              LET before == LoadScores(scoresFile[skey[s]])
                  after == scoresFile'[skey[s]].scores
                  p == InsertedAt(before, snew[s])
              IN  /\ scoresFile'[skey[s]].state = "ok"
                  /\ Len(after) = Len(before) + 1
                  /\ after[p] = snew[s]
                  /\ \A i \in 1..(p - 1) : after[i] = before[i]
                  /\ \A i \in p..Len(before) : after[i + 1] = before[i]
                  /\ IsSortedDesc(after)
      ]_vars

\* a submission to a seeded leaderboard has been saved and the persisted
\* list is longer than the 10 records of the response
C12_Witness ==
    \E s \in Subs :
        /\ spc[s] = "returned"
        /\ Len(scoresFile[skey[s]].scores) > TopN
        /\ InSeq(scoresFile[skey[s]].scores, DefaultScore(1))
        /\ InSeq(scoresFile[skey[s]].scores, snew[s])
        /\ Len(sresp[s].scores) = TopN

\* C13: no persisted leaderboard holds a record with a negative score (a
\* submission whose score is not a non-negative integer is rejected and
\* persists nothing).
C13_NoNegativeScorePersisted ==
    \A f \in Files : \A i \in 1..Len(scoresFile[f].scores) : scoresFile[f].scores[i].score >= 0

\* C14: every persisted record carries initials of 1 to 3 characters, all in
\* upper case.
C14_InitialsOneToThree ==
    \A f \in Files : \A i \in 1..Len(scoresFile[f].scores) :
        LET initials == scoresFile[f].scores[i].initials IN
        /\ Len(initials) >= 1 /\ Len(initials) <= 3
        /\ \A k \in 1..Len(initials) : initials[k] = Upper(initials[k])

\* C15: the score list of a response has at most 10 records, is sorted
\* descending by score, and is the first 10 records of the fully sorted
\* persisted list: of the list the read found, whatever its length and
\* order, and of the list the submission saved.
IsTopOf(out, full) ==
    /\ Len(out) <= TopN
    /\ Len(out) = Min(TopN, Len(full))
    /\ IsSortedDesc(out)
    /\ out = SubSeq(SortDesc(full), 1, Len(out))

C15_ResponseIsTopTen ==
    [][\A s \in Subs :
          /\ Reads(s) => IsTopOf(sresp'[s].scores, LoadScores(scoresFile[skey'[s]]))
          /\ Saves(s) => IsTopOf(sresp'[s].scores, scoresFile'[skey[s]].scores)
      ]_vars

\* a read of a persisted list of more than 10 records, not in descending
\* order, has returned 10 records
C15_Witness ==
    \E s \in Subs :
        /\ spc[s] = "read"
        /\ Len(scoresFile[skey[s]].scores) > TopN
        /\ ~IsSortedDesc(scoresFile[skey[s]].scores)
        /\ Len(sresp[s].scores) = TopN

\* ------------------------------------------------------ orchestrator, log
StartsStage(r, stage) ==
    /\ ~\E i \in 1..Len(stages[r]) : stages[r][i] = Event("start", stage)
    /\ \E i \in 1..Len(stages'[r]) : stages'[r][i] = Event("start", stage)

HasIdentity(m) == m.state = "ok" /\ m.title # "" /\ m.artist # ""

LoggedBy(r, line) == InSeq(logger[r].messages, line)

\* C16: the Organize stage of a run starts, and the catalog file is touched,
\* only in a run for whose file a metadata record with non-empty title and
\* artist is stored; when main finds the record missing or incomplete, no
\* Organize event is recorded, a skip warning is the last record logged,
\* the catalog stays as it is and the run moves to InitLeaderboard.
C16_OrganizeNeedsIdentity ==
    [][\A r \in Runs :
          /\ StartsStage(r, "Organize") =>
                 pc[r] = "organize" /\ HasIdentity(metadataFile[file[r]])
          /\ (pc[r] = "organize" /\ pc'[r] # "organize" /\ ~HasIdentity(metadataFile[file[r]])) =>
                 /\ stages'[r] = stages[r]
                 /\ catalogFile' = catalogFile
                 /\ pc'[r] = "initlb"
                 /\ LET last == logger'[r].messages[Len(logger'[r].messages)] IN
                        /\ last.level = "WARNING"
                        /\ last \in {METADATA_NOT_FOUND, METADATA_INCOMPLETE}
                        /\ (last = METADATA_NOT_FOUND) = (metadataFile[file[r]].state = "absent")
          /\ (pc[r] = "organize_save" /\ pc'[r] # "organize_save") => HasIdentity(songInfo[r])
      ]_vars

\* a run whose identity lacks the artist has skipped Organize
C16_Witness ==
    \E r \in Runs :
        /\ pc[r] = "initlb"
        /\ metadataFile[file[r]].state = "ok" /\ metadataFile[file[r]].artist = ""
        /\ LoggedBy(r, METADATA_INCOMPLETE)
        /\ ~HasEvent(r, "start", "Organize")

\* C17: a run whose FetchLyrics stage failed is never stopped by it: once
\* main is past the return of the script the failure is in the log as a
\* warning, followed by the start of STEP 3, and the run ends only after
\* Organize (run, or skipped for an incomplete identity) and
\* InitLeaderboard, with status 0.
C17_FetchLyricsFailureNonFatal ==
    \A r \in Runs :
        HasEvent(r, "fail", "FetchLyrics") =>
            /\ pc[r] \in {"organize", "organize_upsert", "organize_save", "initlb",
                         "initlb_write", "done"}
            /\ pc[r] # "organize" =>
                   \E i \in 1..(Len(logger[r].messages) - 1) :
                       /\ logger[r].messages[i] = LYRICS_FAILED
                       /\ logger[r].messages[i].level = "WARNING"
                       /\ logger[r].messages[i + 1] = STEP3
            /\ pc[r] = "done" =>
                   /\ HasEvent(r, "start", "Organize") \/ LoggedBy(r, METADATA_INCOMPLETE)
                   /\ HasEvent(r, "end", "InitLeaderboard")
                   /\ exitStatus[r] = 0

C17_Witness ==
    \E r \in Runs :
        /\ pc[r] = "done"
        /\ HasEvent(r, "fail", "FetchLyrics")
        /\ HasEvent(r, "end", "Organize")
        /\ HasEvent(r, "end", "InitLeaderboard")

\* C18: a run whose analysis script succeeded ends with exit status 0, also
\* when FetchLyrics failed or Organize was skipped, and never ends as
\* failed; a run whose analysis script failed (in Analyze or in Segment)
\* ends with a non-zero exit status.
AnalysisFailed(r) == HasEvent(r, "fail", "Analyze") \/ HasEvent(r, "fail", "Segment")

C18_ExitStatus ==
    \A r \in Runs :
        /\ analysisOk[r] => pc[r] # "failed"
        /\ (analysisOk[r] /\ pc[r] = "done") => exitStatus[r] = 0
        /\ (AnalysisFailed(r) /\ pc[r] \in {"done", "failed"}) => exitStatus[r] > 0
        /\ pc[r] \notin {"done", "failed"} => exitStatus[r] = -1

\* a finished run with status 0 in which FetchLyrics failed and Organize was
\* skipped
C18_Witness ==
    \E r \in Runs :
        /\ pc[r] = "done" /\ exitStatus[r] = 0 /\ analysisOk[r]
        /\ HasEvent(r, "fail", "FetchLyrics")
        /\ ~HasEvent(r, "start", "Organize")

\* C19: every started run comes to its end (completed or failed), and at
\* its end the log file of the run holds every record the run logged, in
\* order, the closing record last.
LogComplete(r) ==
    /\ pc[r] \in {"done", "failed"}
    /\ ~logFile[file[r]].mixed
    /\ logFile[file[r]].lines = logger[r].messages
    /\ logger[r].messages[Len(logger[r].messages)] = END_LOG

C19_RunLeavesCompleteLog ==
    \A r \in Runs : (pc[r] # "idle") ~> LogComplete(r)

\* C20: when update_song_catalog saves, the catalog holds exactly one entry
\* with the filename of the song, that entry is the new entry in full, and
\* if the persisted catalog held no entry with the filename the catalog is
\* one entry longer; for every readable persisted catalog, one with several
\* entries of that filename included.
C20_UpsertLeavesOneEntry ==
    [][\A r \in Runs :
          (pc[r] = "organize_save" /\ pc'[r] # "organize_save") =>
              LET before == LoadCatalog(catalogFile)
                  after == catalogFile'.entries
                  entry == CatalogEntry(songInfo[r])
                  matches(c) == {i \in 1..Len(c) : c[i].filename = entry.filename}
              IN  /\ Cardinality(matches(after)) = 1
                  /\ \A i \in matches(after) : after[i] = entry
                  /\ matches(before) = {} => Len(after) = Len(before) + 1
      ]_vars

\* C21: when the persisted catalog file is not valid JSON (text that does
\* not parse, or bytes that are not UTF-8 text), update_song_catalog does
\* not raise: it goes on with an empty catalog, and what it saves is a
\* valid catalog that holds exactly the entry of the song.
C21_CorruptCatalogUpsert ==
    [][\A r \in Runs :
          /\ (pc[r] = "organize_upsert" /\ catalogFile.state \in {"corrupt", "undecodable"}) =>
                 /\ pc'[r] = "organize_save"
                 /\ localCatalog'[r] = <<>>
          /\ (/\ pc[r] = "organize_save" /\ pc'[r] # "organize_save"
              /\ catalogFile.state \in {"corrupt", "undecodable"}) =>
                 catalogFile' = CatalogContent(<<CatalogEntry(songInfo[r])>>)
      ]_vars

\* C22: with a scores file that is not valid JSON, get_high_scores answers
\* 200 with a score list (the empty one), submit_score loads an empty
\* leaderboard and succeeds, and the list it persists holds exactly the
\* newly submitted record.
Unreadable(sf) == sf.state \in {"corrupt", "undecodable"}

C22_UnreadableLeaderboard ==
    [][\A s \in Subs :
          /\ (spc[s] = "idle" /\ spc'[s] = "read" /\ Unreadable(scoresFile[skey'[s]])) =>
                 /\ sresp'[s].status = 200
                 /\ sresp'[s].scores = <<>>
                 /\ scoresFile' = scoresFile
          /\ (/\ spc[s] = "idle" /\ spc'[s] \in {"loaded", "rejected"}
              /\ Unreadable(scoresFile[skey'[s]])
              /\ sresp'[s].status \notin {400, 404}) =>
                 /\ spc'[s] = "loaded"
                 /\ sdata'[s] = <<>>
          /\ (spc[s] = "loaded" /\ spc'[s] # "loaded" /\ Unreadable(scoresFile[skey[s]])) =>
                 /\ sresp'[s].status = 200
                 /\ sresp'[s].rank = 1
                 /\ scoresFile'[skey[s]] = ScoresContent(<<snew[s]>>)
      ]_vars

\* a submission has loaded an unreadable scores file as the empty leaderboard
C22_Witness ==
    \E s \in Subs :
        /\ spc[s] = "loaded"
        /\ Unreadable(scoresFile[skey[s]])
        /\ sdata[s] = <<>>

\* C23: a record persisted in a song's leaderboard stays in it: whatever
\* step is taken (of a pipeline run, of an injection of the core song, of a
\* score submission), every record of the stored list is in the stored
\* list after the step, as many times as before.
Count(x, v) == Cardinality({i \in 1..Len(x) : x[i] = v})

C23_RecordsNeverRemoved ==
    [][\A f \in Files :
          \A i \in 1..Len(scoresFile[f].scores) :
              Count(scoresFile'[f].scores, scoresFile[f].scores[i])
                  >= Count(scoresFile[f].scores, scoresFile[f].scores[i])
      ]_vars

\* What the filename fallback is to give for a stem: "NN Artist - Title" or
\* "NN-Artist - Title" gives the artist and the title without the track
\* number, "Artist - Title" gives that artist and title, and a stem without
\* " - " gives "Unknown Artist" and the whole stem as title.
IsFilenameFallback(stem, out) ==
    /\ \A p \in TrackPrefixes, a \in ArtistNames, t \in TitleNames :
           stem = p \o a \o SEP \o t => out = Identity(t, a)
    /\ ~Contains(stem, SEP) => out = Identity(stem, UNKNOWN_ARTIST)

\* C24: identify_song returns, on every outcome of the lookup, a Song
\* Identity (never None) whose title and artist are not empty, and on every
\* failure of the lookup that identity is the filename fallback of the stem.
C24_IdentifyAlwaysIdentity ==
    idPc = "returned" =>
        /\ idOut.state = "ok"
        /\ idOut.title # <<>>
        /\ idOut.artist # <<>>
        /\ idIn.lookup.kind \in FailureKinds => IsFilenameFallback(idIn.stem, idOut)

\* C25: on every failure or no-capability path identify_song gives, for a
\* stem, one and the same result, and it is the filename fallback of the
\* stem: track number dropped, artist and title split at " - ", or
\* "Unknown Artist" with the whole stem as title.
C25_FallbackSameOnEveryPath ==
    (idPc = "returned" /\ idIn.lookup.kind \in FailureKinds) =>
        /\ \A k \in FailureKinds : identify_song(idIn.stem, Lookup(k)) = idOut
        /\ IsFilenameFallback(idIn.stem, idOut)

\* C26: the analysis of an existing audio file never raises: whichever step
\* of analyze_audio fails (or with the libraries missing), the result is the
\* fallback analysis, so the Analyze stage of a run always ends with a
\* Feature Set and never fails.
C26_ExtractNeverRaises ==
    [][\A r \in Runs :
          (pc[r] = "analyze" /\ pc'[r] \notin {"analyze", "done"}) =>
              /\ pc'[r] = "segment"
              /\ stages'[r] = stages[r] \o Ran("Analyze")
      ]_vars

\* C27: the InitLeaderboard stage of a run loses no submission: what is in
\* the song's scores file when the stage writes the seed (it found no file,
\* so a submission has persisted it since) is still in the file after the
\* write.
C27_SeedKeepsSubmission ==
    [][\A r \in Runs :
          (pc[r] = "initlb_write" /\ pc'[r] # "initlb_write") =>
              \A i \in 1..Len(scoresFile[file[r]].scores) :
                  InSeq(scoresFile'[file[r]].scores, scoresFile[file[r]].scores[i])
      ]_vars

\* C28: when a run has ended with its InitLeaderboard stage done, the
\* leaderboard of its song holds the seeded default record, also when a
\* submission for the song was accepted before the run reached the stage.
IsSeed(rec) == rec.initials = DEFAULT_INITIALS /\ rec.score = DEFAULT_SCORE

C28_ProcessedSongHasSeed ==
    \A r \in Runs :
        (pc[r] = "done" /\ HasEvent(r, "end", "InitLeaderboard")) =>
            \E i \in 1..Len(scoresFile[file[r]].scores) : IsSeed(scoresFile[file[r]].scores[i])

\* C29: in the boundary list the numeric path of detect_segments builds its
\* segments from, every two consecutive boundaries, the last interior one
\* and the final index included, are at least min_indices_between_segments
\* apart.
C29_BoundariesSpaced ==
    (segPc = "done" /\ ~UsesTemplate(fs) /\ segOut.status = "ok") =>
        \A i \in 1..(Len(segOut.change_points) - 1) :
            segOut.change_points[i + 1] - segOut.change_points[i]
                >= MinIndices(Len(fs.energy), fs.duration)

\* C30: for a measured energy profile whose values are all zero the numeric
\* path of detect_segments does not fail, and it returns segments.
C30_ZeroEnergyHandled ==
    (segPc = "done" /\ ~UsesTemplate(fs) /\ fs.energy # <<>> /\ MaxSeq(fs.energy) = 0) =>
        /\ segOut.status = "ok"
        /\ segOut.segments # <<>>

\* C31: the catalog entry a run saves for its song carries the duration and
\* the tempo of the analysis the run's STEP 1 produced for the file.
C31_EntryCarriesAnalysis ==
    [][\A r \in Runs :
          (pc[r] = "organize_save" /\ pc'[r] # "organize_save") =>
              LET after == catalogFile'.entries
                  entry == after[Len(after)]
              IN  /\ entry.filename = songInfo[r].filename
                  /\ entry.duration = AnalysisMetadata(file[r]).duration
                  /\ entry.tempo = AnalysisMetadata(file[r]).tempo
      ]_vars

NonDecreasing(times) == \A i \in 1..(Len(times) - 1) : times[i] <= times[i + 1]
Within(times, duration) == \A i \in 1..Len(times) : 0 <= times[i] /\ times[i] <= duration

\* C32: in every Feature Set the synthetic generator returns, the beats, the
\* onsets, the energy profile times and the note times are each non-decreasing
\* and lie between 0 and the duration of the Feature Set, whatever the file size.
C32_SyntheticSeriesInRange ==
    genPc = "returned" =>
        \A series \in {genOut.beats, genOut.onsets, genOut.energy_times, genOut.note_times} :
            NonDecreasing(series) /\ Within(series, genOut.duration)

\* the change points between the first and the last, as times (twentieths of
\* a second), and the comparison window as a time
InteriorTimes == {TimeAt(fs, segOut.change_points[k]) : k \in 2..(Len(segOut.change_points) - 1)}
WindowTime == TimeAt(fs, WindowSize(Len(fs.energy)))
Near(t, step) == Abs(t - 20 * step) <= WindowTime

\* C33: for a 120-second energy curve that is flat except for a sharp doubling
\* at 30 s and at 90 s, with noise of a small amplitude, every interior change
\* point of the Segment Detector lies within one comparison window of 30 s or
\* of 90 s: one is found at each step and there is no interior change point
\* elsewhere.
C33_StepsFound ==
    (segPc = "done" /\ fs \in StepCurves) =>
        /\ segOut.status = "ok"
        /\ \E t \in InteriorTimes : Near(t, FIRST_STEP)
        /\ \E t \in InteriorTimes : Near(t, SECOND_STEP)
        /\ \A t \in InteriorTimes : Near(t, FIRST_STEP) \/ Near(t, SECOND_STEP)

C33_Witness ==
    /\ segPc = "done"
    /\ fs \in StepCurves
    /\ fs.rate = 4
    /\ fs.energy # StepCurve(4, 100, "none", 0).energy
    /\ \E t \in InteriorTimes : Near(t, FIRST_STEP) /\ ~Near(t, SECOND_STEP)
    /\ \E t \in InteriorTimes : Near(t, SECOND_STEP) /\ ~Near(t, FIRST_STEP)

\* C34: when a core song is injected, the leaderboard that score submissions
\* and score reads use for it, the one under the id whose audio file the
\* injection stored, is the leaderboard the injection seeded: it holds the
\* default record. This is so for every title, with or without spaces.
C34_SeedUnderSongId ==
    [][\A f \in Files :
          (f \notin uploads /\ f \in uploads') =>
              scoresFile'[f] = ScoresContent(<<CoreDefaultScore(today)>>)
      ]_vars

\* C35: a score submission that is rejected (no body, a missing required
\* field, a score that is not a number, a song id without an audio file)
\* leaves every persisted leaderboard as it was and creates no leaderboard
\* file: neither the step that rejects it nor the return of its response
\* changes a scores file.
C35_RejectionKeepsLeaderboards ==
    [][\A s \in Subs :
          (spc[s] = "rejected" \/ spc'[s] = "rejected") =>
              /\ scoresFile' = scoresFile
              /\ spc'[s] = "rejected" => sresp'[s].status \in {400, 404}
      ]_vars

C35_Witness ==
    \E s \in Subs :
        /\ spc[s] = "rejected"
        /\ sresp[s].status = 404
        /\ ~SongFound(skey[s])
        /\ scoresFile[skey[s]] = AbsentFile
        /\ \E f \in Files : scoresFile[f].state = "ok" /\ Len(scoresFile[f].scores) >= 2

\* C36: the run log records the Organize stage as successful ("File
\* organization complete.") only if the organize step of the run succeeded:
\* a run whose organize step failed has no such record in its log.
C36_OrganizeSuccessLoggedTruthfully ==
    \A r \in Runs :
        LoggedBy(r, ORGANIZATION_COMPLETE) =>
            /\ HasEvent(r, "end", "Organize")
            /\ ~HasEvent(r, "fail", "Organize")

\* C37: in every run, on every path (success, fatal Analyze failure,
\* unhandled exception), the run logger is closed exactly once: when the
\* run has ended, close() has been called once, the log is closed and its
\* last record is the closing record.
C37_LoggerClosedOnce ==
    \A r \in Runs :
        pc[r] \in {"done", "failed"} =>
            /\ ~logger[r].open
            /\ logger[r].closes = 1
            /\ logger[r].messages[Len(logger[r].messages)] = END_LOG

====
